---- MODULE Spec2Model ----
(***************************************************************************)
(* DeepMQ: an AMQP 0-9-1 broker (src/src/server.ts and the entity classes  *)
(* under src/src/core, src/src/persistence, src/src/routing).              *)
(*                                                                         *)
(* The model is the broker's state machine: the entity tables of           *)
(* DeepMQBroker, the per-connection and per-channel objects, the           *)
(* setImmediate callback queue of the Node.js event loop, and the          *)
(* FileStore (message log, in-memory index, queue snapshot).  One action   *)
(* models one frame handler, one timer or socket event, or one scheduled   *)
(* callback.                                                               *)
(***************************************************************************)
EXTENDS Integers, Sequences, FiniteSets, TLC

(***************************************************************************)
(* Bounds of the model.                                                    *)
(***************************************************************************)
\* number of publishes completed over one run of the broker
MaxMsgs == 2
\* deliveries are made only while every channel's delivery-tag counter is below this
MaxTag == 2
\* callbacks are scheduled only while fewer than this many are pending
MaxImmediates == 1
\* largest prefetchCount a client sends in Basic.Qos
MaxPrefetch == 1
\* Basic.Consume is sent only while the queue's consumer count is below this
MaxConsumerCount == 2
\* number of broker restarts in the persistence specification
MaxRestarts == 1
\* Queue.Bind is sent only while the registry holds fewer bindings to exchanges than this
MaxBindings == 2
\* number of publishes in the routing specification
MaxRouted == 1
\* largest number of words of a routing key or a pattern given to matchesPattern
MaxWords == 3
\* largest body-size of a content header and largest length of a body frame
MaxBodySize == 2
\* the clock stops at this number of seconds
MaxTime == 4

\* connection objects (Connection.id is a fresh uuid per accepted socket)
Conns == {"c1", "c2"}
\* channel objects; each belongs to one connection and carries a channel number
ChanIds == {"c1.1", "c1.2", "c2.1"}
ChanConn(ch) == IF ch = "c2.1" THEN "c2" ELSE "c1"
ChanNumber(ch) == IF ch = "c1.2" THEN 2 ELSE 1
QueueNames == {"q1", "q2"}
Tags == {"t1", "t2"}
\* client-supplied properties.messageId values; "" stands for an absent messageId
ClientMessageIds == {"", "m"}
\* values produced by randomUUID(), one per call
Uuids == <<"u1", "u2", "u3", "u4", "u5", "u6", "u7", "u8">>

VARIABLES
  connections,    \* DeepMQBroker.connections: ids of the tracked connections
  connState,      \* Connection._state of every connection object
  connChannels,   \* Connection.channels of every connection: its Channel objects, insertion order
  channels,       \* the Channel objects
  queues,         \* DeepMQBroker.queues: name -> Queue
  bindings,       \* BindingRegistry.bindings, in insertion order
  bySource,       \* BindingRegistry.bySource: source -> keys, in insertion order
  byDestination,  \* BindingRegistry.byDestination: destination -> keys
  consumers,      \* ConsumerRegistry.consumers: tag -> Consumer
  queueConsumers, \* ConsumerRegistry.queueConsumers: queue -> tags, insertion order
  immediates,     \* pending setImmediate(() => deliverToConsumer(consumer)) callbacks
  storeLog,       \* messages.log: the appended LogEntry records
  storeIndex,     \* FileStore.messagesByQueue: queue -> messages, insertion order
  storeQueues,    \* queues.json
  storeBindings,  \* bindings.json
  sent,           \* frames written to sockets by the last step
  published,      \* number of messages created so far (randomUUID draws)
  restarts,       \* number of restarts so far
  tasks,          \* handlers suspended at an await of a FileStore call, oldest first
  tmpFiles,       \* queues.json.tmp and bindings.json.tmp: <<>> or <<content>>
  exchanges,      \* DeepMQBroker.exchanges: name -> Exchange
  storeExchanges, \* exchanges.json
  logFileHandle,  \* FileStore.logFileHandle: "open", or "null" once close() has run
  connInfo,       \* the negotiated parameters and the heartbeat fields of every connection object
  now,            \* Date.now(), in seconds
  call,           \* a function of the routing code under test and its arguments
  returned        \* <<>>, or <<v>> once the function under test has returned v

vars == <<connections, connState, connChannels, channels, queues, bindings, bySource,
          byDestination, consumers,
          queueConsumers, immediates, storeLog, storeIndex, storeQueues,
          storeBindings, sent, published, restarts, tasks, tmpFiles,
          exchanges, storeExchanges, logFileHandle, connInfo, now, call, returned>>

(***************************************************************************)
(* Sequence helpers.                                                       *)
(***************************************************************************)
Range(s) == {s[i] : i \in 1..Len(s)}

RECURSIVE SelectSeqBy(_, _)
\* the elements of s that are in the set keep, in order
SelectSeqBy(s, keep) ==
  IF s = <<>> THEN <<>>
  ELSE IF Head(s) \in keep THEN <<Head(s)>> \o SelectSeqBy(Tail(s), keep)
  ELSE SelectSeqBy(Tail(s), keep)

\* Set.add / Map.set of a new key on an insertion-ordered collection of keys
AddKey(s, k) == IF k \in Range(s) THEN s ELSE Append(s, k)
\* Set.delete
DelKey(s, k) == SelectSeqBy(s, Range(s) \ {k})

\* Array.splice(i, 1)
RemoveAt(s, i) == SubSeq(s, 1, i - 1) \o SubSeq(s, i + 1, Len(s))

Restrict(f, S) == [x \in S |-> f[x]]
MapSet(f, k, v) == [x \in (DOMAIN f) \cup {k} |-> IF x = k THEN v ELSE f[x]]
MapDel(f, k) == Restrict(f, (DOMAIN f) \ {k})

(***************************************************************************)
(* Channel (src/src/core/binding.ts, second half: core/channel.ts).        *)
(***************************************************************************)
\* state "none": the object has not been constructed yet
\* protocol/constants.ts
DEFAULT_CHANNEL_MAX == 2047
DEFAULT_FRAME_MAX == 131072
DEFAULT_HEARTBEAT == 60

\* the fields of a Connection object constructed at time t; heartbeatTimer is
\* <<>> for null and <<the time of the next call of the interval callback>>
NewConnection(t) ==
  [channelMax |-> DEFAULT_CHANNEL_MAX, frameMax |-> DEFAULT_FRAME_MAX,
   heartbeat |-> DEFAULT_HEARTBEAT, lastHeartbeat |-> t, heartbeatTimer |-> <<>>]

\* Connection.startHeartbeat
StartHeartbeat(info, t) ==
  IF info.heartbeat = 0 THEN info
  ELSE [info EXCEPT !.lastHeartbeat = t, !.heartbeatTimer = <<t + info.heartbeat>>]

\* Connection.resetHeartbeat
ResetHeartbeat(info, t) == [info EXCEPT !.lastHeartbeat = t]

\* Connection.stopHeartbeat
StopHeartbeat(info) == [info EXCEPT !.heartbeatTimer = <<>>]

\* pendingMessage is <<>> for null and <<pending>> otherwise
NewChannel ==
  [state |-> "none", flowActive |-> TRUE, prefetchCount |-> 0,
   deliveryTagCounter |-> 0, unackedMessages |-> <<>>, consumers |-> <<>>,
   pendingMessage |-> <<>>]

\* a canDeliver that ignores prefetchCount
CanDeliver_Unlimited(chan) == TRUE

CanDeliver(chan) ==
  IF chan.prefetchCount = 0 THEN TRUE
  ELSE Len(chan.unackedMessages) < chan.prefetchCount

\* a nextDeliveryTag that returns the counter without incrementing it
NextDeliveryTag_Stuck(chan) == chan

\* Channel.nextDeliveryTag: ++deliveryTagCounter; the tag is the new counter
NextDeliveryTag(chan) ==
  [chan EXCEPT !.deliveryTagCounter = @ + 1]

TrackUnacked(chan, deliveryTag, message, queueName, consumerTag) ==
  [chan EXCEPT !.unackedMessages =
     Append(@, [deliveryTag |-> deliveryTag, message |-> message,
                queueName |-> queueName, consumerTag |-> consumerTag])]

\* the entries Channel.ack removes
AckedEntries(chan, deliveryTag, multiple) ==
  SelectSeq(chan.unackedMessages,
            LAMBDA e : IF multiple THEN e.deliveryTag <= deliveryTag
                       ELSE e.deliveryTag = deliveryTag)

\* an ack that always removes every entry up to the tag
AckRemove_UpTo(chan, deliveryTag, multiple) ==
  [chan EXCEPT !.unackedMessages = SelectSeq(@, LAMBDA e : e.deliveryTag > deliveryTag)]

\* an ack that removes nothing
AckRemove_Keep(chan, deliveryTag, multiple) == chan

\* the unacked map after Channel.ack / nack / reject
AckRemove(chan, deliveryTag, multiple) ==
  [chan EXCEPT !.unackedMessages =
     SelectSeq(@, LAMBDA e : IF multiple THEN e.deliveryTag > deliveryTag
                             ELSE e.deliveryTag # deliveryTag)]

\* Channel.close()
ChannelClose(chan) ==
  IF chan.state = "closed" THEN chan
  ELSE [chan EXCEPT !.unackedMessages = <<>>, !.consumers = <<>>,
                    !.pendingMessage = <<>>, !.state = "closed"]

(***************************************************************************)
(* Consumer (src/src/core/consumer.ts).                                    *)
(***************************************************************************)
\* a canReceive that does not look at the channel's flow
CanReceive_IgnoreFlow(chan) == CanDeliver(chan)

CanReceive(chan) ==
  IF ~chan.flowActive THEN FALSE ELSE CanDeliver(chan)

(***************************************************************************)
(* Exchange (src/unnamed/part_000: core/exchange.ts).                      *)
(***************************************************************************)
ExchangeTypes == {"direct", "fanout", "topic", "headers"}

NewExchange(type, durable, autoDelete, isDefault) ==
  [type |-> type, durable |-> durable, autoDelete |-> autoDelete,
   isDefault |-> isDefault]

\* Exchange.matches({type, durable})
ExchangeMatches(exchange, type, durable) ==
  exchange.type = type /\ exchange.durable = durable

\* createDefaultExchanges (src/src/persistence/recovery.ts)
CreateDefaultExchanges ==
  [name \in {"", "amq.direct", "amq.fanout", "amq.topic", "amq.headers"} |->
     NewExchange(CASE name = "" -> "direct"
                   [] name = "amq.direct" -> "direct"
                   [] name = "amq.fanout" -> "fanout"
                   [] name = "amq.topic" -> "topic"
                   [] name = "amq.headers" -> "headers",
                 TRUE, FALSE, TRUE)]

(***************************************************************************)
(* Queue (src/src/core/queue.ts).                                          *)
(***************************************************************************)
NewQueue(durable, exclusive, autoDelete, connectionId) ==
  [durable |-> durable, exclusive |-> exclusive, autoDelete |-> autoDelete,
   exclusiveConnectionId |-> IF exclusive THEN connectionId ELSE "",
   messages |-> <<>>, consumerCount |-> 0]

\* an enqueue that puts the message in front
Enqueue_AtFront(queue, message) ==
  [queue EXCEPT !.messages = <<message>> \o @]

Enqueue(queue, message) ==
  [queue EXCEPT !.messages = Append(@, message)]

\* the queue after Queue.dequeue (Array.shift)
Dequeue(queue) ==
  [queue EXCEPT !.messages = IF @ = <<>> THEN <<>> ELSE Tail(@)]

\* a requeue that always appends
Requeue_AtTail(queue, message, front) ==
  [queue EXCEPT !.messages = Append(@, message)]

Requeue(queue, message, front) ==
  [queue EXCEPT !.messages = IF front THEN <<message>> \o @
                             ELSE Append(@, message)]

CanAccess(queue, connectionId) ==
  IF ~queue.exclusive THEN TRUE
  ELSE queue.exclusiveConnectionId = connectionId

QueueMatches(queue, durable, exclusive) ==
  queue.durable = durable /\ queue.exclusive = exclusive

\* Queue.removeConsumer; the 'empty-consumers' event it emits for an
\* autoDelete queue without consumers has no listener
QueueRemoveConsumer(queue) ==
  [queue EXCEPT !.consumerCount = IF @ > 0 THEN @ - 1 ELSE 0]

(***************************************************************************)
(* Message (src/src/core/queue.ts, second half: core/message.ts).          *)
(***************************************************************************)
\* n is the number of the randomUUID() draw; uid stands for the identity of
\* the message object (its content bytes and timestamp)
CreateMessage(exchange, routingKey, messageId, deliveryMode, n) ==
  [id |-> IF messageId # "" THEN messageId ELSE Uuids[n],
   uid |-> n, exchange |-> exchange, routingKey |-> routingKey,
   properties |-> [messageId |-> messageId, deliveryMode |-> deliveryMode]]

\* serializeMessage: the JSON text written to the log (content as base64)
SerializeMessage(message) ==
  [json |-> [id |-> message.id, exchange |-> message.exchange,
             routingKey |-> message.routingKey, properties |-> message.properties,
             content |-> message.uid]]

\* deserializeMessage
DeserializeMessage(data) ==
  [id |-> data.json.id, uid |-> data.json.content, exchange |-> data.json.exchange,
   routingKey |-> data.json.routingKey, properties |-> data.json.properties]

(***************************************************************************)
(* The broker state as one record, threaded through the handlers' calls.   *)
(***************************************************************************)
Cur ==
  [connections |-> connections, connState |-> connState,
   connChannels |-> connChannels, channels |-> channels, queues |-> queues,
   bindings |-> bindings, bySource |-> bySource, byDestination |-> byDestination,
   consumers |-> consumers,
   queueConsumers |-> queueConsumers, immediates |-> immediates,
   storeLog |-> storeLog, storeIndex |-> storeIndex,
   storeQueues |-> storeQueues, storeBindings |-> storeBindings, sent |-> sent, published |-> published,
   restarts |-> restarts, tasks |-> tasks, tmpFiles |-> tmpFiles,
   exchanges |-> exchanges, storeExchanges |-> storeExchanges,
   logFileHandle |-> logFileHandle,
   connInfo |-> connInfo, now |-> now]

\* the state a handler starts from: nothing written to a socket yet
Begin == [Cur EXCEPT !.sent = <<>>]

\* the handler returns: its result becomes the next state
Commit(W) ==
  \E V \in {W} :
    /\ connections' = V.connections
    /\ connState' = V.connState
    /\ connChannels' = V.connChannels
    /\ channels' = V.channels
    /\ queues' = V.queues
    /\ bindings' = V.bindings
    /\ bySource' = V.bySource
    /\ byDestination' = V.byDestination
    /\ consumers' = V.consumers
    /\ queueConsumers' = V.queueConsumers
    /\ immediates' = V.immediates
    /\ storeLog' = V.storeLog
    /\ storeIndex' = V.storeIndex
    /\ storeQueues' = V.storeQueues
    /\ storeBindings' = V.storeBindings
    /\ sent' = V.sent
    /\ published' = V.published
    /\ restarts' = V.restarts
    /\ tasks' = V.tasks
    /\ tmpFiles' = V.tmpFiles
    /\ exchanges' = V.exchanges
    /\ storeExchanges' = V.storeExchanges
    /\ logFileHandle' = V.logFileHandle
    /\ connInfo' = V.connInfo
    /\ now' = V.now
    /\ UNCHANGED <<call, returned>>

RECURSIVE FoldSeq(_, _, _)
\* for (const x of s) W = Op(W, x)
FoldSeq(Op(_, _), W, s) ==
  IF s = <<>> THEN W ELSE FoldSeq(Op, Op(W, Head(s)), Tail(s))

RECURSIVE SetToSeq(_)
\* some enumeration of a set whose iteration order does not affect the result
SetToSeq(S) ==
  IF S = {} THEN <<>>
  ELSE LET x == CHOOSE y \in S : TRUE IN <<x>> \o SetToSeq(S \ {x})

(***************************************************************************)
(* Connection (src/src/core/connection.ts).                                *)
(***************************************************************************)
\* Connection.hasChannel / getChannel
HasChannel(W, ch) == ch \in Range(W.connChannels[ChanConn(ch)])

\* Connection.send: nothing is written once the connection is closed
Send(W, conn, frame) ==
  IF W.connState[conn] = "closed" THEN W
  ELSE [W EXCEPT !.sent = Append(@, frame)]

\* Connection.closeChannel
CloseChannel(W, ch) ==
  IF HasChannel(W, ch)
  THEN [W EXCEPT !.channels[ch] = ChannelClose(@),
                 !.connChannels[ChanConn(ch)] = DelKey(@, ch)]
  ELSE W

\* Connection.close(): closes the channel objects itself, then the socket
ConnectionCloseObj(W, conn) ==
  IF W.connState[conn] = "closed" THEN W
  ELSE LET W1 == FoldSeq(LAMBDA V, ch : [V EXCEPT !.channels[ch] = ChannelClose(@)],
                         W, W.connChannels[conn])
       IN [W1 EXCEPT !.connChannels[conn] = <<>>, !.connState[conn] = "closed",
                     !.connInfo[conn] = StopHeartbeat(@)]

(***************************************************************************)
(* FileStore (src/src/persistence/file-store.ts).                          *)
(***************************************************************************)
\* Map.set(message.id, message) on the per-queue index: an existing key keeps
\* its position and takes the new value
IndexSet(msgs, message) ==
  IF \E i \in 1..Len(msgs) : msgs[i].id = message.id
  THEN [i \in 1..Len(msgs) |-> IF msgs[i].id = message.id THEN message ELSE msgs[i]]
  ELSE Append(msgs, message)

IndexDelete(msgs, messageId) == SelectSeq(msgs, LAMBDA m : m.id # messageId)

IndexOf(idx, queueName) == IF queueName \in DOMAIN idx THEN idx[queueName] ELSE <<>>

SaveMessage(W, queueName, message) ==
  [W EXCEPT !.storeIndex = MapSet(@, queueName, IndexSet(IndexOf(@, queueName), message)),
            !.storeLog = Append(@, [type |-> "message", queue |-> queueName,
                                    messageId |-> message.id,
                                    data |-> SerializeMessage(message)])]

DeleteMessage(W, queueName, messageId) ==
  [W EXCEPT !.storeIndex = IF queueName \in DOMAIN @
                           THEN MapSet(@, queueName, IndexDelete(@[queueName], messageId))
                           ELSE @,
            !.storeLog = Append(@, [type |-> "delete", queue |-> queueName,
                                    messageId |-> messageId])]

SaveQueue(W, queueName, queue) ==
  [W EXCEPT !.storeQueues =
     MapSet(@, queueName, [durable |-> queue.durable, exclusive |-> queue.exclusive,
                           autoDelete |-> queue.autoDelete])]

SaveExchange(W, exchangeName, exchange) ==
  [W EXCEPT !.storeExchanges =
     MapSet(@, exchangeName, [type |-> exchange.type, durable |-> exchange.durable,
                              autoDelete |-> exchange.autoDelete])]

SaveBinding(W, binding) ==
  [W EXCEPT !.storeBindings = AddKey(@, binding)]

\* FileStore.deleteExchange
DeleteExchange(W, exchangeName) ==
  [W EXCEPT !.storeExchanges = MapDel(@, exchangeName)]

\* FileStore.deleteBinding
DeleteBinding(W, source, destination, routingKey) ==
  [W EXCEPT !.storeBindings =
     SelectSeq(@, LAMBDA b : ~(/\ b.source = source
                               /\ b.destination = destination
                               /\ b.routingKey = routingKey))]

\* FileStore.deleteQueue: the snapshot entry and the index of the queue
DeleteQueue(W, queueName) ==
  [W EXCEPT !.storeQueues = MapDel(@, queueName),
            !.storeIndex = MapDel(@, queueName)]

\* FileStore.purgeQueue: one delete record per indexed message of the queue
PurgeQueue(W, queueName) ==
  IF queueName \notin DOMAIN W.storeIndex THEN W
  ELSE LET msgs == W.storeIndex[queueName]
       IN [W EXCEPT !.storeLog =
                      @ \o [i \in 1..Len(msgs) |->
                              [type |-> "delete", queue |-> queueName,
                               messageId |-> msgs[i].id]],
                    !.storeIndex = MapSet(@, queueName, <<>>)]

RECURSIVE LoadMessages(_, _)
\* replay of messages.log into the index, first entry first
LoadMessages(idx, log) ==
  IF log = <<>> THEN idx
  ELSE LET entry == Head(log)
           idx1 == IF entry.type = "message"
                   THEN MapSet(idx, entry.queue,
                               IndexSet(IndexOf(idx, entry.queue),
                                        DeserializeMessage(entry.data)))
                   ELSE IF entry.queue \in DOMAIN idx
                   THEN MapSet(idx, entry.queue,
                               IndexDelete(idx[entry.queue], entry.messageId))
                   ELSE idx
       IN LoadMessages(idx1, Tail(log))

(***************************************************************************)
(* ConsumerRegistry (src/src/core/consumer.ts).                            *)
(***************************************************************************)
RegistryAdd(W, consumer) ==
  [W EXCEPT !.consumers = MapSet(@, consumer.consumerTag, consumer),
            !.queueConsumers =
               MapSet(@, consumer.queueName,
                      AddKey(IndexOf(@, consumer.queueName), consumer.consumerTag))]

RegistryRemove(W, consumerTag) ==
  IF consumerTag \notin DOMAIN W.consumers THEN W
  ELSE LET qn == W.consumers[consumerTag].queueName
           W1 == [W EXCEPT !.consumers = MapDel(@, consumerTag)]
       IN IF qn \notin DOMAIN W1.queueConsumers THEN W1
          ELSE LET rest == DelKey(W1.queueConsumers[qn], consumerTag)
               IN [W1 EXCEPT !.queueConsumers =
                      IF rest = <<>> THEN MapDel(@, qn) ELSE MapSet(@, qn, rest)]

\* the registered consumers of a queue, in the order of the queue's tag set
GetByQueue(W, queueName) ==
  LET tags == SelectSeqBy(IndexOf(W.queueConsumers, queueName), DOMAIN W.consumers)
  IN [i \in 1..Len(tags) |-> W.consumers[tags[i]]]

HasExclusiveConsumer(W, queueName) ==
  \E c \in Range(GetByQueue(W, queueName)) : c.exclusive

(***************************************************************************)
(* BindingRegistry (src/src/core/binding.ts).                              *)
(***************************************************************************)
\* Binding.key: the three strings joined with ':'
BindingKey(binding) ==
  binding.source \o ":" \o binding.destination \o ":" \o binding.routingKey

\* BindingRegistry.add: nothing is added when the key is already in the map
BindingAdd(bs, binding) ==
  IF \E i \in 1..Len(bs) : BindingKey(bs[i]) = BindingKey(binding)
  THEN bs ELSE Append(bs, binding)

\* BindingRegistry.remove
BindingRemove(bs, source, destination, routingKey) ==
  SelectSeq(bs, LAMBDA b : BindingKey(b) # BindingKey([source |-> source,
                                                       destination |-> destination,
                                                       routingKey |-> routingKey]))

\* the bindings of bs whose source is the exchange, in insertion order
GetBySource(bs, source) == SelectSeq(bs, LAMBDA b : b.source = source)

\* the bindings of bs whose destination is the queue, in insertion order
GetByDestination(bs, destination) ==
  SelectSeq(bs, LAMBDA b : b.destination = destination)

\* the set of keys of an index entry after Set.add(key), created when missing
IndexAdd(idx, name, key) ==
  MapSet(idx, name, AddKey(IF name \in DOMAIN idx THEN idx[name] ELSE <<>>, key))

\* the index after Set.delete(key) on the entry, which is dropped when empty
IndexRemove(idx, name, key) ==
  IF name \notin DOMAIN idx THEN idx
  ELSE IF DelKey(idx[name], key) = <<>> THEN MapDel(idx, name)
  ELSE MapSet(idx, name, DelKey(idx[name], key))

\* keys.map(key => this.bindings.get(key)).filter(b => b !== undefined)
BindingsOfKeys(bs, keys) ==
  LET stored == SelectSeq(keys, LAMBDA k : \E b \in Range(bs) : BindingKey(b) = k)
  IN [i \in 1..Len(stored) |-> CHOOSE b \in Range(bs) : BindingKey(b) = stored[i]]

\* BindingRegistry.add: the map and both indices
BindingsAdd(W, binding) ==
  IF \E b \in Range(W.bindings) : BindingKey(b) = BindingKey(binding) THEN W
  ELSE [W EXCEPT !.bindings = BindingAdd(@, binding),
                 !.bySource = IndexAdd(@, binding.source, BindingKey(binding)),
                 !.byDestination = IndexAdd(@, binding.destination, BindingKey(binding))]

\* BindingRegistry.remove: the key is looked up in the map; the indices are
\* updated under the source and the destination of the call
BindingsRemove(W, source, destination, routingKey) ==
  LET key == BindingKey([source |-> source, destination |-> destination,
                         routingKey |-> routingKey])
  IN IF \A b \in Range(W.bindings) : BindingKey(b) # key THEN W
     ELSE [W EXCEPT !.bindings = BindingRemove(@, source, destination, routingKey),
                    !.bySource = IndexRemove(@, source, key),
                    !.byDestination = IndexRemove(@, destination, key)]

\* BindingRegistry.getBySource
BindingsGetBySource(W, source) ==
  IF source \notin DOMAIN W.bySource THEN <<>>
  ELSE BindingsOfKeys(W.bindings, W.bySource[source])

\* BindingRegistry.getByDestination
BindingsGetByDestination(W, destination) ==
  IF destination \notin DOMAIN W.byDestination THEN <<>>
  ELSE BindingsOfKeys(W.bindings, W.byDestination[destination])

\* BindingRegistry.removeBySource
BindingsRemoveBySource(W, source) ==
  FoldSeq(LAMBDA V, b : BindingsRemove(V, b.source, b.destination, b.routingKey),
          W, BindingsGetBySource(W, source))

\* a removeByDestination that removes nothing
BindingsRemoveByDestination_Keep(W, destination) == W

\* BindingRegistry.removeByDestination
BindingsRemoveByDestination(W, destination) ==
  FoldSeq(LAMBDA V, b : BindingsRemove(V, b.source, b.destination, b.routingKey),
          W, BindingsGetByDestination(W, destination))

(***************************************************************************)
(* DeepMQBroker (src/src/server.ts): delivery and cleanup.                 *)
(***************************************************************************)
\* Basic.Deliver followed by the content header and body frames of message
DeliverFrame(ch, consumerTag, deliveryTag, message) ==
  [type |-> "basic.deliver", channel |-> ch, consumerTag |-> consumerTag,
   deliveryTag |-> deliveryTag, message |-> message]

DeliverToConsumer(W, consumer) ==
  LET ch == consumer.channel
      chan == W.channels[ch]
      qn == consumer.queueName
  IN IF ~CanReceive(chan) THEN W
     ELSE IF qn \notin DOMAIN W.queues THEN W
     ELSE IF W.queues[qn].messages = <<>> THEN W
     ELSE
       LET queue == W.queues[qn]
           message == Head(queue.messages)
           chan1 == NextDeliveryTag(chan)
           deliveryTag == chan1.deliveryTagCounter
           chan2 == IF ~consumer.noAck
                    THEN TrackUnacked(chan1, deliveryTag, message, qn, consumer.consumerTag)
                    ELSE chan1
           W1 == [W EXCEPT !.queues[qn] = Dequeue(queue), !.channels[ch] = chan2]
           W2 == Send(W1, ChanConn(ch),
                      DeliverFrame(ch, consumer.consumerTag, deliveryTag, message))
           W3 == IF consumer.noAck /\ queue.durable
                 THEN DeleteMessage(W2, qn, message.id) ELSE W2
       IN IF CanReceive(chan2)
          THEN [W3 EXCEPT !.immediates = Append(@, consumer)]
          ELSE W3

\* a requeue that drops the message
RequeueTo_Drop(W, queueName, message, front) == W

\* queue.requeue(message, front) when the queue still exists
RequeueTo(W, queueName, message, front) ==
  IF queueName \in DOMAIN W.queues
  THEN [W EXCEPT !.queues[queueName] = Requeue(@, message, front)]
  ELSE W

CleanupChannel(W, ch) ==
  LET removed == {t \in DOMAIN W.consumers : W.consumers[t].channel = ch}
      W1 == FoldSeq(LAMBDA V, t :
                      LET qn == V.consumers[t].queueName
                          V1 == RegistryRemove(V, t)
                      IN IF qn \in DOMAIN V1.queues
                         THEN [V1 EXCEPT !.queues[qn] = QueueRemoveConsumer(@)]
                         ELSE V1,
                    W, SetToSeq(removed))
      W2 == FoldSeq(LAMBDA V, e : RequeueTo(V, e.queueName, e.message, TRUE),
                    W1, W1.channels[ch].unackedMessages)
  IN CloseChannel(W2, ch)

CleanupConnection(W, conn) ==
  LET W1 == FoldSeq(CleanupChannel, W, W.connChannels[conn])
      owned == {qn \in DOMAIN W1.queues : W1.queues[qn].exclusiveConnectionId = conn}
      W2 == FoldSeq(LAMBDA V, qn :
                      BindingsRemoveByDestination(
                        [V EXCEPT !.queues = MapDel(@, qn)], qn),
                    W1, SetToSeq(owned))
      W3 == [W2 EXCEPT !.connections = @ \ {conn}]
  IN ConnectionCloseObj(W3, conn)

(***************************************************************************)
(* MessageRouter (src/unnamed/part_001).                                   *)
(***************************************************************************)
RouteDefault(W, routingKey) ==
  IF routingKey \in DOMAIN W.queues THEN <<routingKey>> ELSE <<>>

RECURSIVE Dedupe(_)
\* [...new Set(list)]: the first occurrence of every element, in order
Dedupe(list) ==
  IF list = <<>> THEN <<>>
  ELSE <<Head(list)>> \o Dedupe(SelectSeq(Tail(list), LAMBDA x : x # Head(list)))

\* the destinations of a list of bindings
Destinations(bs) == [i \in 1..Len(bs) |-> bs[i].destination]

\* matchDirect (src/unnamed/part_002)
MatchDirect(routingKey, bs) ==
  Destinations(SelectSeq(bs, LAMBDA b : b.routingKey = routingKey))

\* a matchFanout that keeps the duplicates
MatchFanout_All(bs) == Destinations(bs)

\* matchFanout
MatchFanout(bs) == Dedupe(Destinations(bs))

\* the character of a string at position i (1-based)
CharAt(str, i) == SubSeq(str, i, i)

RECURSIVE SplitFrom(_, _, _)
SplitFrom(str, i, word) ==
  IF i > Len(str) THEN <<word>>
  ELSE IF CharAt(str, i) = "." THEN <<word>> \o SplitFrom(str, i + 1, "")
  ELSE SplitFrom(str, i + 1, word \o CharAt(str, i))

\* String.split('.'): the empty string gives one empty word
Split(str) == SplitFrom(str, 1, "")

RECURSIVE Join(_)
\* Array.join('.')
Join(words) ==
  IF words = <<>> THEN ""
  ELSE IF Len(words) = 1 THEN words[1]
  ELSE words[1] \o "." \o Join(Tail(words))

RECURSIVE MatchesPattern(_, _)
RECURSIVE MatchLoop(_, _, _, _)
RECURSIVE HashLoop(_, _, _, _)

\* matchesPattern: the outer loop, while (pi < patternWords.length), with the
\* indices ri and pi counted from 0 as in the code
MatchLoop(routingWords, patternWords, ri, pi) ==
  IF pi >= Len(patternWords) THEN ri = Len(routingWords)
  ELSE LET patternWord == patternWords[pi + 1]
       IN IF patternWord = "#"
          THEN IF pi = Len(patternWords) - 1 THEN TRUE
               ELSE HashLoop(routingWords, patternWords, ri, pi)
          ELSE IF patternWord = "*"
          THEN IF ri >= Len(routingWords) THEN FALSE
               ELSE MatchLoop(routingWords, patternWords, ri + 1, pi + 1)
          ELSE IF ri >= Len(routingWords) \/ routingWords[ri + 1] # patternWord
               THEN FALSE
               ELSE MatchLoop(routingWords, patternWords, ri + 1, pi + 1)

\* matchesPattern: the inner loop of the '#' case, while (ri <= routingWords.length)
HashLoop(routingWords, patternWords, ri, pi) ==
  IF ri > Len(routingWords) THEN FALSE
  ELSE IF ri = Len(routingWords)
  THEN \A i \in (pi + 1)..(Len(patternWords) - 1) : patternWords[i + 1] = "#"
  ELSE LET nextPatternWord == patternWords[pi + 2]
       IN IF /\ \/ nextPatternWord = "*"
                \/ nextPatternWord = "#"
                \/ routingWords[ri + 1] = nextPatternWord
             /\ MatchesPattern(
                  Join(SubSeq(routingWords, ri + 1, Len(routingWords))),
                  Join(SubSeq(patternWords, pi + 2, Len(patternWords))))
          THEN TRUE
          ELSE HashLoop(routingWords, patternWords, ri + 1, pi)

\* a matcher that compares the two word lists for equality
MatchesPattern_WordEquality(routingKey, pattern) ==
  Split(routingKey) = Split(pattern)

\* matchesPattern (src/src/routing/topic-exchange.ts)
MatchesPattern(routingKey, pattern) ==
  MatchLoop(Split(routingKey), Split(pattern), 0, 0)

\* matchTopic
MatchTopic(routingKey, bs) ==
  Dedupe(Destinations(SelectSeq(bs, LAMBDA b : MatchesPattern(routingKey, b.routingKey))))

\* MessageRouter.matchBindings
MatchBindings(type, routingKey, bs) ==
  CASE type = "direct" -> MatchDirect(routingKey, bs)
    [] type = "fanout" -> MatchFanout(bs)
    [] type = "topic" -> MatchTopic(routingKey, bs)
    [] OTHER -> <<>>

\* MessageRouter.route: the names of the queues a message is routed to
Route(W, message) ==
  IF message.exchange = "" THEN RouteDefault(W, message.routingKey)
  ELSE IF message.exchange \notin DOMAIN W.exchanges THEN <<>>
  ELSE LET queueNames == MatchBindings(W.exchanges[message.exchange].type,
                                       message.routingKey,
                                       BindingsGetBySource(W, message.exchange))
       IN SelectSeq(queueNames, LAMBDA qn : qn \in DOMAIN W.queues)

(***************************************************************************)
(* Initial state: a broker constructed and started on an empty dataDir.    *)
(***************************************************************************)
EmptyMap == [x \in {} |-> x]

InitBroker ==
  /\ connections = {}
  /\ connState = [c \in Conns |-> "none"]
  /\ connChannels = [c \in Conns |-> <<>>]
  /\ channels = [ch \in ChanIds |-> NewChannel]
  /\ queues = EmptyMap
  /\ bindings = <<>>
  /\ bySource = EmptyMap
  /\ byDestination = EmptyMap
  /\ consumers = EmptyMap
  /\ queueConsumers = EmptyMap
  /\ immediates = <<>>
  /\ storeLog = <<>>
  /\ storeIndex = EmptyMap
  /\ storeQueues = EmptyMap
  /\ storeBindings = <<>>
  /\ sent = <<>>
  /\ published = 0
  /\ restarts = 0
  /\ tasks = <<>>
  /\ tmpFiles = [queues |-> <<>>, bindings |-> <<>>]
  /\ exchanges = CreateDefaultExchanges
  /\ storeExchanges = EmptyMap
  /\ logFileHandle = "open"
  /\ connInfo = [c \in Conns |-> NewConnection(0)]
  /\ now = 0

Init ==
  /\ InitBroker
  /\ call = [fn |-> "none"]
  /\ returned = <<>>

(***************************************************************************)
(* Guards shared by the handlers.                                          *)
(***************************************************************************)
\* a frame of connection conn reaches its handler
FrameFrom(conn) == conn \in connections /\ connState[conn] = "open"

\* handleExchangeMethod / handleQueueMethod / handleBasicMethod go on only
\* for a channel that is in the connection's map and in state open
ChannelReady(ch) ==
  /\ FrameFrom(ChanConn(ch))
  /\ HasChannel(Cur, ch)
  /\ channels[ch].state = "open"

\* bound: deliveries and callbacks stay within MaxTag and MaxImmediates
TagRoom == \A ch \in ChanIds : channels[ch].deliveryTagCounter < MaxTag
DeliveryRoom == TagRoom /\ Len(immediates) < MaxImmediates

\* closeChannelWithError: a Channel.Close frame and nothing else
CloseChannelWithError(W, ch, replyCode) ==
  Send(W, ChanConn(ch), [type |-> "channel.close", channel |-> ch,
                        replyCode |-> replyCode])

\* closeConnectionWithError: Connection.Close is sent, the state is closing
CloseConnectionWithError(W, conn, replyCode) ==
  [Send(W, conn, [type |-> "connection.close", conn |-> conn,
                  replyCode |-> replyCode])
     EXCEPT !.connState[conn] = "closing"]

(***************************************************************************)
(* Connection and channel lifecycle.                                       *)
(***************************************************************************)
\* a socket is accepted and the handshake completes with Connection.Open
Connect(conn) ==
  /\ connState[conn] = "none"
  /\ Commit([Begin EXCEPT !.connections = @ \cup {conn},
                          !.connState[conn] = "open",
                          !.sent = <<[type |-> "connection.open-ok", conn |-> conn]>>])

\* Channel.Open
ChannelOpen(ch) ==
  /\ FrameFrom(ChanConn(ch))
  /\ channels[ch].state # "closed"
  /\ IF HasChannel(Cur, ch)
     THEN Commit(CloseChannelWithError(Begin, ch, 504))
     ELSE Commit(Send([Begin EXCEPT !.channels[ch] = [NewChannel EXCEPT !.state = "open"],
                                    !.connChannels[ChanConn(ch)] = Append(@, ch)],
                      ChanConn(ch), [type |-> "channel.open-ok", channel |-> ch]))

\* Channel.Flow
ChannelFlow(ch, active) ==
  /\ FrameFrom(ChanConn(ch))
  /\ HasChannel(Cur, ch)
  /\ Commit(Send([Begin EXCEPT !.channels[ch].flowActive = active],
                 ChanConn(ch), [type |-> "channel.flow-ok", channel |-> ch,
                                active |-> active]))

\* Channel.Close from the client
ChannelCloseMethod(ch) ==
  /\ FrameFrom(ChanConn(ch))
  /\ LET W1 == IF HasChannel(Cur, ch) THEN CleanupChannel(Begin, ch) ELSE Begin
     IN Commit(Send(W1, ChanConn(ch), [type |-> "channel.close-ok", channel |-> ch]))

\* Connection.Close from the client
ConnectionCloseMethod(conn) ==
  /\ FrameFrom(conn)
  /\ LET W1 == [Begin EXCEPT !.connState[conn] = "closing"]
         W2 == Send(W1, conn, [type |-> "connection.close-ok", conn |-> conn])
     IN Commit(CleanupConnection(W2, conn))

\* the socket's 'close' or 'error' event
SocketClose(conn) ==
  /\ conn \in connections
  /\ Commit(CleanupConnection(Begin, conn))

\* the heartbeat timer finds no frame for more than twice the interval
HeartbeatTimeout(conn) ==
  /\ conn \in connections
  /\ connState[conn] = "open"
  /\ Commit(ConnectionCloseObj(Begin, conn))

(***************************************************************************)
(* The handshake, frame by frame (handleConnection, handleConnectionMethod)*)
(* and the heartbeat.                                                      *)
(***************************************************************************)
\* the values of DeepMQBroker.options used in the handshake
OptionsOf(name) ==
  CASE name = "channelMax" -> DEFAULT_CHANNEL_MAX
    [] name = "frameMax" -> DEFAULT_FRAME_MAX
    [] name = "heartbeat" -> DEFAULT_HEARTBEAT

\* the socket is accepted: a Connection object in state awaiting_header
SocketAccept(conn) ==
  /\ connState[conn] = "none"
  /\ Commit([Begin EXCEPT !.connections = @ \cup {conn},
                          !.connState[conn] = "awaiting_header",
                          !.connInfo[conn] = NewConnection(now)])

\* the first eight bytes of the socket: the protocol header, or something else
ProtocolHeader(conn, valid) ==
  /\ conn \in connections
  /\ connState[conn] = "awaiting_header"
  /\ IF ~valid
     THEN Commit(Send(Begin, conn, [type |-> "protocol-header", conn |-> conn]))
     ELSE Commit(Send([Begin EXCEPT !.connState[conn] = "awaiting_start_ok"],
                      conn, [type |-> "connection.start", conn |-> conn]))

\* once the protocol header is accepted, every frame of the socket is parsed
\* and handed to handleFrame, whatever the state of the connection
FrameParsed(conn) ==
  /\ conn \in connections
  /\ connState[conn] \notin {"none", "awaiting_header", "closed"}

\* Math.min
Min(a, b) == IF a <= b THEN a ELSE b

\* a || b for numbers
OrElse(a, b) == IF a # 0 THEN a ELSE b

\* Connection.Start-Ok
StartOk(conn, authValid) ==
  /\ FrameParsed(conn)
  /\ IF ~authValid
     THEN Commit(CloseConnectionWithError(Begin, conn, 403))
     ELSE Commit(Send([Begin EXCEPT !.connState[conn] = "awaiting_tune_ok"],
                      conn, [type |-> "connection.tune", conn |-> conn,
                             channelMax |-> OptionsOf("channelMax"),
                             frameMax |-> OptionsOf("frameMax"),
                             heartbeat |-> OptionsOf("heartbeat")]))

\* Connection.Tune-Ok
TuneOk(conn, channelMax, frameMax, heartbeat) ==
  /\ FrameParsed(conn)
  /\ Commit([Begin EXCEPT
               !.connInfo[conn].channelMax =
                  Min(OrElse(channelMax, OptionsOf("channelMax")), OptionsOf("channelMax")),
               !.connInfo[conn].frameMax =
                  Min(OrElse(frameMax, OptionsOf("frameMax")), OptionsOf("frameMax")),
               !.connInfo[conn].heartbeat = Min(heartbeat, OptionsOf("heartbeat")),
               !.connState[conn] = "awaiting_open"])

\* Connection.Open
ConnectionOpen(conn) ==
  /\ FrameParsed(conn)
  /\ Commit(Send([Begin EXCEPT !.connState[conn] = "open",
                               !.connInfo[conn] = StartHeartbeat(@, now)],
                 conn, [type |-> "connection.open-ok", conn |-> conn]))

\* Connection.Close-Ok
ConnectionCloseOk(conn) ==
  /\ FrameParsed(conn)
  /\ Commit(CleanupConnection(Begin, conn))

\* a heartbeat frame
HeartbeatFrame(conn) ==
  /\ FrameParsed(conn)
  /\ Commit(Send([Begin EXCEPT !.connInfo[conn] = ResetHeartbeat(@, now)],
                 conn, [type |-> "heartbeat", conn |-> conn]))

\* the callback of the heartbeat interval
HeartbeatTimer(conn) ==
  /\ connInfo[conn].heartbeatTimer # <<>>
  /\ connInfo[conn].heartbeatTimer[1] = now
  /\ LET elapsed == now - connInfo[conn].lastHeartbeat
     IN IF elapsed > connInfo[conn].heartbeat * 2
        THEN Commit(ConnectionCloseObj(Begin, conn))
        ELSE Commit([Begin EXCEPT !.connInfo[conn].heartbeatTimer =
                                     <<now + connInfo[conn].heartbeat>>])

\* a second passes; the interval callbacks that are due run first
Tick ==
  /\ now < MaxTime
  /\ \A conn \in Conns :
       connInfo[conn].heartbeatTimer # <<>> => now < connInfo[conn].heartbeatTimer[1]
  /\ Commit([Begin EXCEPT !.now = @ + 1])

(***************************************************************************)
(* Exchange methods (handleExchangeMethod).                                *)
(***************************************************************************)
\* String.startsWith
StartsWith(str, prefix) ==
  Len(str) >= Len(prefix) /\ SubSeq(str, 1, Len(prefix)) = prefix

\* Exchange.Declare
ExchangeDeclare(ch, exchangeName, type, durable, autoDelete, passive) ==
  /\ ChannelReady(ch)
  /\ LET exists == exchangeName \in DOMAIN exchanges
         ok == [type |-> "exchange.declare-ok", channel |-> ch]
     IN IF passive
        THEN IF ~exists THEN Commit(CloseChannelWithError(Begin, ch, 404))
             ELSE Commit(Send(Begin, ChanConn(ch), ok))
        ELSE IF exists
        THEN IF ~ExchangeMatches(exchanges[exchangeName], type, durable)
             THEN Commit(CloseChannelWithError(Begin, ch, 406))
             ELSE Commit(Send(Begin, ChanConn(ch), ok))
        ELSE IF StartsWith(exchangeName, "amq.")
        THEN Commit(CloseChannelWithError(Begin, ch, 403))
        ELSE LET exchange == NewExchange(type, durable, autoDelete, FALSE)
                 W1 == [Begin EXCEPT !.exchanges = MapSet(@, exchangeName, exchange)]
                 W2 == IF durable THEN SaveExchange(W1, exchangeName, exchange) ELSE W1
             IN Commit(Send(W2, ChanConn(ch), ok))

\* Exchange.Delete; the handler does not read args.ifUnused
ExchangeDelete(ch, exchangeName, ifUnused) ==
  /\ ChannelReady(ch)
  /\ LET ok == [type |-> "exchange.delete-ok", channel |-> ch]
     IN IF exchangeName \notin DOMAIN exchanges
        THEN Commit(Send(Begin, ChanConn(ch), ok))
        ELSE IF exchanges[exchangeName].isDefault
        THEN Commit(CloseChannelWithError(Begin, ch, 403))
        ELSE LET W1 == BindingsRemoveBySource(
                         [Begin EXCEPT !.exchanges = MapDel(@, exchangeName)],
                         exchangeName)
             IN Commit(Send(DeleteExchange(W1, exchangeName), ChanConn(ch), ok))

(***************************************************************************)
(* Queue methods (handleQueueMethod).                                      *)
(***************************************************************************)
DefaultBinding(queueName) ==
  [source |-> "", destination |-> queueName, routingKey |-> queueName]

DeclareOk(W, ch, queueName) ==
  Send(W, ChanConn(ch),
       [type |-> "queue.declare-ok", channel |-> ch, queue |-> queueName,
        messageCount |-> Len(W.queues[queueName].messages),
        consumerCount |-> W.queues[queueName].consumerCount])

\* Queue.Declare
QueueDeclareWith(ch, queueName, durable, exclusive, autoDelete, passive) ==
  /\ ChannelReady(ch)
  /\ LET conn == ChanConn(ch)
         exists == queueName \in DOMAIN queues
     IN IF passive
        THEN IF ~exists THEN Commit(CloseChannelWithError(Begin, ch, 404))
             ELSE IF ~CanAccess(queues[queueName], conn)
             THEN Commit(CloseChannelWithError(Begin, ch, 405))
             ELSE Commit(DeclareOk(Begin, ch, queueName))
        ELSE IF exists
        THEN IF ~QueueMatches(queues[queueName], durable, exclusive)
             THEN Commit(CloseChannelWithError(Begin, ch, 406))
             ELSE IF ~CanAccess(queues[queueName], conn)
             THEN Commit(CloseChannelWithError(Begin, ch, 405))
             ELSE Commit(DeclareOk(Begin, ch, queueName))
        ELSE LET queue == NewQueue(durable, exclusive, autoDelete, conn)
                 W1 == BindingsAdd([Begin EXCEPT !.queues = MapSet(@, queueName, queue)],
                                   DefaultBinding(queueName))
                 W2 == IF durable
                       THEN SaveBinding(SaveQueue(W1, queueName, queue),
                                        DefaultBinding(queueName))
                       ELSE W1
             IN Commit(DeclareOk(W2, ch, queueName))

\* Queue.Declare with auto-delete unset
QueueDeclare(ch, queueName, durable, exclusive, passive) ==
  QueueDeclareWith(ch, queueName, durable, exclusive, FALSE, passive)

\* Queue.Bind
QueueBind(ch, queueName, exchangeName, routingKey) ==
  /\ ChannelReady(ch)
  /\ IF queueName \notin DOMAIN queues
     THEN Commit(CloseChannelWithError(Begin, ch, 404))
     ELSE IF exchangeName = ""
     THEN Commit(CloseChannelWithError(Begin, ch, 403))
     ELSE IF exchangeName \notin DOMAIN exchanges
     THEN Commit(CloseChannelWithError(Begin, ch, 404))
     ELSE LET binding == [source |-> exchangeName, destination |-> queueName,
                          routingKey |-> routingKey]
              W1 == BindingsAdd(Begin, binding)
              W2 == IF queues[queueName].durable THEN SaveBinding(W1, binding) ELSE W1
          IN Commit(Send(W2, ChanConn(ch), [type |-> "queue.bind-ok", channel |-> ch]))

\* Queue.Unbind
QueueUnbind(ch, queueName, exchangeName, routingKey) ==
  /\ ChannelReady(ch)
  /\ LET found == \E i \in 1..Len(bindings) :
                    BindingKey(bindings[i]) =
                      BindingKey([source |-> exchangeName, destination |-> queueName,
                                  routingKey |-> routingKey])
         W1 == IF found
               THEN DeleteBinding(
                      BindingsRemove(Begin, exchangeName, queueName, routingKey),
                      exchangeName, queueName, routingKey)
               ELSE Begin
     IN Commit(Send(W1, ChanConn(ch), [type |-> "queue.unbind-ok", channel |-> ch]))

\* Queue.Purge
QueuePurge(ch, queueName) ==
  /\ ChannelReady(ch)
  /\ IF queueName \notin DOMAIN queues
     THEN Commit(CloseChannelWithError(Begin, ch, 404))
     ELSE LET messageCount == Len(queues[queueName].messages)
              W1 == [Begin EXCEPT !.queues[queueName].messages = <<>>]
              W2 == PurgeQueue(W1, queueName)
          IN Commit(Send(W2, ChanConn(ch),
                         [type |-> "queue.purge-ok", channel |-> ch,
                          messageCount |-> messageCount]))

\* Queue.Delete
QueueDeleteIf(ch, queueName, ifUnused, ifEmpty) ==
  /\ ChannelReady(ch)
  /\ IF queueName \notin DOMAIN queues
     THEN Commit(Send(Begin, ChanConn(ch),
                      [type |-> "queue.delete-ok", channel |-> ch, messageCount |-> 0]))
     ELSE IF ifUnused /\ queues[queueName].consumerCount > 0
     THEN Commit(CloseChannelWithError(Begin, ch, 406))
     ELSE IF ifEmpty /\ Len(queues[queueName].messages) > 0
     THEN Commit(CloseChannelWithError(Begin, ch, 406))
     ELSE LET messageCount == Len(queues[queueName].messages)
              W1 == BindingsRemoveByDestination(
                      [Begin EXCEPT !.queues = MapDel(@, queueName)], queueName)
              cs == GetByQueue(W1, queueName)
              W2 == FoldSeq(LAMBDA V, c : RegistryRemove(V, c.consumerTag), W1, cs)
              W3 == DeleteQueue(W2, queueName)
          IN Commit(Send(W3, ChanConn(ch),
                         [type |-> "queue.delete-ok", channel |-> ch,
                          messageCount |-> messageCount]))

\* Queue.Delete with ifUnused and ifEmpty unset
QueueDelete(ch, queueName) == QueueDeleteIf(ch, queueName, FALSE, FALSE)

(***************************************************************************)
(* Queue.Declare of a new durable queue, step by step.  The handler awaits *)
(* store.saveQueue and store.saveBinding; each of them awaits a readFile,  *)
(* a writeFile of the .tmp file and a rename.  While the handler is        *)
(* suspended the event loop runs other events: frames of other             *)
(* connections and later 'data' events of the same socket.  A step of a    *)
(* suspended handler is the completion of the file operation it awaits     *)
(* followed by the code up to the next await.                              *)
(***************************************************************************)
\* Queue.toJSON, as far as the model keeps it
QueueJson(queue) ==
  [durable |-> queue.durable, exclusive |-> queue.exclusive,
   autoDelete |-> queue.autoDelete]

\* the 'data' handler catches what the suspended handler throws
TaskThrows(W, i) ==
  CloseConnectionWithError([W EXCEPT !.tasks = RemoveAt(@, i)],
                           W.tasks[i].conn, 541)

\* the rest of the Queue.Declare handler after the awaits: Declare-Ok
TaskFinishes(W, i) ==
  LET t == W.tasks[i]
      W1 == [W EXCEPT !.tasks = RemoveAt(@, i)]
  IN IF t.queueName \in DOMAIN W1.queues
     THEN DeclareOk(W1, t.ch, t.queueName)
     ELSE CloseConnectionWithError(W1, t.conn, 541)

\* the completion of the file operation that task i awaits
ResumeTask(W, i) ==
  LET t == W.tasks[i]
      binding == DefaultBinding(t.queueName)
  IN CASE t.pc = "saveQueue:readFile" ->
            [W EXCEPT !.tasks[i].pc = "saveQueue:writeFile",
                      !.tasks[i].data =
                         MapSet(W.storeQueues, t.queueName, QueueJson(t.queue))]
       [] t.pc = "saveQueue:writeFile" ->
            [W EXCEPT !.tmpFiles.queues = <<t.data>>,
                      !.tasks[i].pc = "saveQueue:rename"]
       [] t.pc = "saveQueue:rename" ->
            IF W.tmpFiles.queues = <<>> THEN TaskThrows(W, i)
            ELSE [W EXCEPT !.storeQueues = W.tmpFiles.queues[1],
                           !.tmpFiles.queues = <<>>,
                           !.tasks[i].pc = "saveBinding:readFile",
                           !.tasks[i].data = <<>>]
       [] t.pc = "saveBinding:readFile" ->
            IF binding \in Range(W.storeBindings) THEN TaskFinishes(W, i)
            ELSE [W EXCEPT !.tasks[i].pc = "saveBinding:writeFile",
                           !.tasks[i].data = Append(W.storeBindings, binding)]
       [] t.pc = "saveBinding:writeFile" ->
            [W EXCEPT !.tmpFiles.bindings = <<t.data>>,
                      !.tasks[i].pc = "saveBinding:rename"]
       [] t.pc = "saveBinding:rename" ->
            IF W.tmpFiles.bindings = <<>> THEN TaskThrows(W, i)
            ELSE TaskFinishes([W EXCEPT !.storeBindings = W.tmpFiles.bindings[1],
                                        !.tmpFiles.bindings = <<>>], i)

\* Queue.Declare up to its first await: a declare that creates a durable
\* queue suspends in store.saveQueue, any other declare runs to its end
QueueDeclareBegin(ch, queueName, durable, exclusive, passive) ==
  IF passive \/ ~durable \/ queueName \in DOMAIN queues
  THEN QueueDeclare(ch, queueName, durable, exclusive, passive)
  ELSE /\ ChannelReady(ch)
       /\ LET queue == NewQueue(durable, exclusive, FALSE, ChanConn(ch))
          IN Commit([BindingsAdd([Begin EXCEPT !.queues = MapSet(@, queueName, queue)],
                                 DefaultBinding(queueName)) EXCEPT
                       !.tasks = Append(@, [conn |-> ChanConn(ch), ch |-> ch,
                                            queueName |-> queueName, queue |-> queue,
                                            pc |-> "saveQueue:readFile",
                                            data |-> <<>>])])

\* the event loop resumes a suspended handler
Resume(i) ==
  /\ i \in 1..Len(tasks)
  /\ Commit(ResumeTask(Begin, i))

(***************************************************************************)
(* Basic methods (handleBasicMethod) and completeMessage.                  *)
(***************************************************************************)
\* Basic.Qos
BasicQos(ch, prefetchCount) ==
  /\ ChannelReady(ch)
  /\ Commit(Send([Begin EXCEPT !.channels[ch].prefetchCount = prefetchCount],
                 ChanConn(ch), [type |-> "basic.qos-ok", channel |-> ch]))

\* Basic.Consume with a client-supplied consumer tag
BasicConsume(ch, queueName, consumerTag, noAck, exclusive) ==
  /\ ChannelReady(ch)
  /\ DeliveryRoom
  /\ queueName \in DOMAIN queues => queues[queueName].consumerCount < MaxConsumerCount
  /\ IF queueName \notin DOMAIN queues
     THEN Commit(CloseChannelWithError(Begin, ch, 404))
     ELSE IF ~CanAccess(queues[queueName], ChanConn(ch))
     THEN Commit(CloseChannelWithError(Begin, ch, 405))
     ELSE IF exclusive /\ HasExclusiveConsumer(Cur, queueName)
     THEN Commit(CloseChannelWithError(Begin, ch, 403))
     ELSE LET consumer == [consumerTag |-> consumerTag, queueName |-> queueName,
                           channel |-> ch, noAck |-> noAck, exclusive |-> exclusive]
              W1 == RegistryAdd(Begin, consumer)
              W2 == [W1 EXCEPT !.channels[ch].consumers = AddKey(@, consumerTag),
                               !.queues[queueName].consumerCount = @ + 1]
              W3 == Send(W2, ChanConn(ch),
                         [type |-> "basic.consume-ok", channel |-> ch,
                          consumerTag |-> consumerTag])
          IN Commit(DeliverToConsumer(W3, consumer))

\* Basic.Cancel
BasicCancel(ch, consumerTag) ==
  /\ ChannelReady(ch)
  /\ LET W1 == IF consumerTag \in DOMAIN consumers
               THEN LET qn == consumers[consumerTag].queueName
                        V1 == RegistryRemove(Begin, consumerTag)
                        V2 == [V1 EXCEPT !.channels[ch].consumers = DelKey(@, consumerTag)]
                    IN IF qn \in DOMAIN V2.queues
                       THEN [V2 EXCEPT !.queues[qn] = QueueRemoveConsumer(@)]
                       ELSE V2
               ELSE Begin
     IN Commit(Send(W1, ChanConn(ch),
                    [type |-> "basic.cancel-ok", channel |-> ch,
                     consumerTag |-> consumerTag]))

\* buildMessageFrames: the content header with the properties and the body
\* frames; every message of the model has a body that fits one frame
MessageFrames(ch, message) ==
  <<[type |-> "content-header", channel |-> ch, properties |-> message.properties],
    [type |-> "content-body", channel |-> ch, content |-> message.uid]>>

\* a return without the content frames
ReturnFrames_MethodOnly(ch, message) ==
  <<[type |-> "basic.return", channel |-> ch, replyCode |-> 313,
     exchange |-> message.exchange, routingKey |-> message.routingKey]>>

\* completeMessage, unroutable and mandatory: Basic.Return (NO_CONSUMERS)
\* followed by the content frames
ReturnFrames(ch, message) ==
  <<[type |-> "basic.return", channel |-> ch, replyCode |-> 313,
     exchange |-> message.exchange, routingKey |-> message.routingKey]>>
  \o MessageFrames(ch, message)

\* completeMessage: the loop body for one routed queue
DeliverToQueue(W, queueName, message) ==
  LET W1 == [W EXCEPT !.queues[queueName] = Enqueue(@, message)]
      W2 == IF W1.queues[queueName].durable /\ message.properties.deliveryMode = 2
            THEN SaveMessage(W1, queueName, message) ELSE W1
  IN FoldSeq(DeliverToConsumer, W2, GetByQueue(W2, queueName))

\* Basic.Publish: channel.setPendingMessage; properties {} has no messageId
\* and no deliveryMode (written 0)
SetPendingMessage(W, ch, exchange, routingKey, mandatory) ==
  [W EXCEPT !.channels[ch].pendingMessage =
     <<[exchange |-> exchange, routingKey |-> routingKey, mandatory |-> mandatory,
        properties |-> [messageId |-> "", deliveryMode |-> 0],
        bodySize |-> 0, receivedSize |-> 0]>>]

\* completeMessage
CompleteMessage(W, ch) ==
  IF W.channels[ch].pendingMessage = <<>> THEN W
  ELSE LET pending == W.channels[ch].pendingMessage[1]
           message == CreateMessage(pending.exchange, pending.routingKey,
                                    pending.properties.messageId,
                                    pending.properties.deliveryMode, W.published + 1)
           W1 == [W EXCEPT !.published = @ + 1, !.channels[ch].pendingMessage = <<>>]
           routed == Route(W1, message)
       IN IF routed = <<>>
          THEN IF pending.mandatory
               THEN FoldSeq(LAMBDA V, frame : Send(V, ChanConn(ch), frame), W1,
                            ReturnFrames(ch, message))
               ELSE W1
          ELSE FoldSeq(LAMBDA V, qn : DeliverToQueue(V, qn, message), W1, routed)

\* handleHeaderFrame
HandleHeaderFrame(W, ch, bodySize, properties) ==
  IF ~HasChannel(W, ch) THEN W
  ELSE IF W.channels[ch].pendingMessage = <<>> THEN W
  ELSE LET W1 == [W EXCEPT !.channels[ch].pendingMessage[1].bodySize = bodySize,
                           !.channels[ch].pendingMessage[1].properties = properties]
       IN IF bodySize = 0 THEN CompleteMessage(W1, ch) ELSE W1

\* Channel.appendBodyChunk: the pending message after the chunk
AppendBodyChunk(chan, length) ==
  IF chan.pendingMessage = <<>> THEN chan
  ELSE [chan EXCEPT !.pendingMessage[1].receivedSize = @ + length]

\* Channel.appendBodyChunk: its result
BodyComplete(chan) ==
  IF chan.pendingMessage = <<>> THEN FALSE
  ELSE chan.pendingMessage[1].receivedSize >= chan.pendingMessage[1].bodySize

\* handleBodyFrame for a body frame of length bytes
HandleBodyFrame(W, ch, length) ==
  IF ~HasChannel(W, ch) THEN W
  ELSE LET W1 == [W EXCEPT !.channels[ch] = AppendBodyChunk(@, length)]
       IN IF BodyComplete(W1.channels[ch]) THEN CompleteMessage(W1, ch) ELSE W1

\* Basic.Publish, its content header and its body frames: completeMessage
PublishMessage(ch, exchange, routingKey, messageId, deliveryMode, mandatory) ==
  /\ ChannelReady(ch)
  /\ DeliveryRoom
  /\ published < MaxMsgs
  /\ LET W1 == SetPendingMessage(Begin, ch, exchange, routingKey, mandatory)
         W2 == HandleHeaderFrame(W1, ch, 1, [messageId |-> messageId,
                                             deliveryMode |-> deliveryMode])
     IN Commit(HandleBodyFrame(W2, ch, 1))

\* the Basic.Publish method frame on its own
BasicPublish(ch, exchange, routingKey, mandatory) ==
  /\ ChannelReady(ch)
  /\ Commit(SetPendingMessage(Begin, ch, exchange, routingKey, mandatory))

\* a content header frame
HeaderFrame(ch, bodySize, messageId, deliveryMode) ==
  /\ FrameFrom(ChanConn(ch))
  /\ DeliveryRoom
  /\ published < MaxMsgs
  /\ Commit(HandleHeaderFrame(Begin, ch, bodySize,
                              [messageId |-> messageId, deliveryMode |-> deliveryMode]))

\* a content body frame of length bytes
BodyFrame(ch, length) ==
  /\ FrameFrom(ChanConn(ch))
  /\ DeliveryRoom
  /\ published < MaxMsgs
  /\ Commit(HandleBodyFrame(Begin, ch, length))

\* Basic.Get
BasicGet(ch, queueName, noAck) ==
  /\ ChannelReady(ch)
  /\ TagRoom
  /\ IF queueName \notin DOMAIN queues
     THEN Commit(CloseChannelWithError(Begin, ch, 404))
     ELSE IF queues[queueName].messages = <<>>
     THEN Commit(Send(Begin, ChanConn(ch), [type |-> "basic.get-empty", channel |-> ch]))
     ELSE LET queue == queues[queueName]
              message == Head(queue.messages)
              chan1 == NextDeliveryTag(channels[ch])
              deliveryTag == chan1.deliveryTagCounter
              W1 == [Begin EXCEPT !.queues[queueName] = Dequeue(queue),
                                  !.channels[ch] =
                                     IF ~noAck
                                     THEN TrackUnacked(chan1, deliveryTag, message,
                                                       queueName, "")
                                     ELSE chan1]
              W2 == IF noAck /\ queue.durable
                    THEN DeleteMessage(W1, queueName, message.id) ELSE W1
          IN Commit(Send(W2, ChanConn(ch),
                         [type |-> "basic.get-ok", channel |-> ch,
                          deliveryTag |-> deliveryTag, message |-> message,
                          messageCount |-> Len(W2.queues[queueName].messages)]))

\* store.deleteMessage for an entry whose queue exists and is durable
DeleteIfDurable(W, entry) ==
  IF entry.queueName \in DOMAIN W.queues /\ W.queues[entry.queueName].durable
  THEN DeleteMessage(W, entry.queueName, entry.message.id)
  ELSE W

\* for (const consumer of channel.getConsumers()) deliverToConsumer(registered c)
DeliverToChannelConsumers(W, ch) ==
  FoldSeq(LAMBDA V, t : IF t \in DOMAIN V.consumers
                        THEN DeliverToConsumer(V, V.consumers[t]) ELSE V,
          W, W.channels[ch].consumers)

\* Basic.Ack
BasicAck(ch, deliveryTag, multiple) ==
  /\ ChannelReady(ch)
  /\ DeliveryRoom
  /\ LET acked == AckedEntries(channels[ch], deliveryTag, multiple)
         W1 == [Begin EXCEPT !.channels[ch] = AckRemove(@, deliveryTag, multiple)]
         W2 == FoldSeq(DeleteIfDurable, W1, acked)
     IN Commit(DeliverToChannelConsumers(W2, ch))

\* setImmediate(() => deliverToConsumer(consumer)) for every consumer of the queue
ScheduleForQueue(W, queueName) ==
  [W EXCEPT !.immediates = @ \o GetByQueue(W, queueName)]

\* Basic.Reject
BasicReject(ch, deliveryTag, requeue) ==
  /\ ChannelReady(ch)
  /\ Len(immediates) < MaxImmediates
  /\ LET rejected == AckedEntries(channels[ch], deliveryTag, FALSE)
         W1 == [Begin EXCEPT !.channels[ch] = AckRemove(@, deliveryTag, FALSE)]
     IN IF rejected = <<>> THEN Commit(W1)
        ELSE LET entry == rejected[1]
             IN IF requeue
                THEN IF entry.queueName \in DOMAIN W1.queues
                     THEN Commit(ScheduleForQueue(
                                   RequeueTo(W1, entry.queueName, entry.message, TRUE),
                                   entry.queueName))
                     ELSE Commit(W1)
                ELSE Commit(DeleteIfDurable(W1, entry))

\* the Basic.Nack loop body for one removed entry
NackEntry(W, entry, requeue) ==
  IF requeue THEN RequeueTo(W, entry.queueName, entry.message, TRUE)
  ELSE DeleteIfDurable(W, entry)

RECURSIVE QueuesToRedeliver(_, _, _)
\* the queue names the Basic.Nack loop adds to its set, in insertion order
QueuesToRedeliver(W, entries, acc) ==
  IF entries = <<>> THEN acc
  ELSE QueuesToRedeliver(
         W, Tail(entries),
         IF Head(entries).queueName \in DOMAIN W.queues
         THEN AddKey(acc, Head(entries).queueName) ELSE acc)

\* Basic.Nack
BasicNack(ch, deliveryTag, multiple, requeue) ==
  /\ ChannelReady(ch)
  /\ Len(immediates) < MaxImmediates
  /\ LET nacked == AckedEntries(channels[ch], deliveryTag, multiple)
         W1 == [Begin EXCEPT !.channels[ch] = AckRemove(@, deliveryTag, multiple)]
         W2 == FoldSeq(LAMBDA V, e : NackEntry(V, e, requeue), W1, nacked)
         redeliver == IF requeue THEN QueuesToRedeliver(W1, nacked, <<>>) ELSE <<>>
     IN Commit(FoldSeq(ScheduleForQueue, W2, redeliver))

\* Basic.Recover
BasicRecover(ch, requeue) ==
  /\ ChannelReady(ch)
  /\ DeliveryRoom
  /\ LET unacked == channels[ch].unackedMessages
         W1 == FoldSeq(LAMBDA V, e : RequeueTo(V, e.queueName, e.message, ~requeue),
                       Begin, unacked)
         W2 == [W1 EXCEPT !.channels[ch].unackedMessages = <<>>]
         W3 == Send(W2, ChanConn(ch), [type |-> "basic.recover-ok", channel |-> ch])
     IN Commit(DeliverToChannelConsumers(W3, ch))

\* the event loop runs the oldest pending setImmediate callback
RunImmediate ==
  /\ immediates # <<>>
  /\ TagRoom
  /\ Commit(DeliverToConsumer([Begin EXCEPT !.immediates = Tail(@)], Head(immediates)))

\* Connection.destroy
ConnectionDestroy(W, conn) ==
  LET W1 == FoldSeq(LAMBDA V, ch : [V EXCEPT !.channels[ch] = ChannelClose(@)],
                    W, W.connChannels[conn])
  IN [W1 EXCEPT !.connChannels[conn] = <<>>, !.connState[conn] = "closed",
                !.connInfo[conn] = StopHeartbeat(@)]

\* DeepMQBroker.stop: every connection is destroyed and the map cleared, the
\* server's close waits for the sockets, whose 'close' events run
\* cleanupConnection, and the store's log handle is closed.  Handlers that
\* are suspended in a FileStore call are not waited for.
Stop ==
  /\ logFileHandle = "open"
  /\ LET cs == SetToSeq(connections)
         W1 == FoldSeq(ConnectionDestroy, Begin, cs)
         W2 == [W1 EXCEPT !.connections = {}]
         W3 == FoldSeq(CleanupConnection, W2, cs)
     IN Commit([W3 EXCEPT !.logFileHandle = "null",
                          !.sent = <<[type |-> "broker:stopped"]>>])

(***************************************************************************)
(* Crash or stop, then start() on the same dataDir                         *)
(* (FileStore.initialize, recoverFromStore).                               *)
(***************************************************************************)
RecoverFromStore(W) ==
  LET idx == LoadMessages(EmptyMap, W.storeLog)
      names == {qn \in DOMAIN W.storeQueues :
                  W.storeQueues[qn].durable /\ ~W.storeQueues[qn].exclusive}
      saved == {en \in DOMAIN W.storeExchanges : W.storeExchanges[en].durable}
      recovered == [en \in saved |->
                      NewExchange(W.storeExchanges[en].type, TRUE,
                                  W.storeExchanges[en].autoDelete, FALSE)]
      W1 == [W EXCEPT !.storeIndex = idx,
                      !.exchanges = [en \in (DOMAIN CreateDefaultExchanges) \cup saved |->
                                       IF en \in saved THEN recovered[en]
                                       ELSE CreateDefaultExchanges[en]],
                      !.queues = [qn \in names |->
                                    [NewQueue(TRUE, FALSE, W.storeQueues[qn].autoDelete, "")
                                       EXCEPT !.messages = IndexOf(idx, qn)]],
                      !.bindings = <<>>,
                      !.bySource = EmptyMap,
                      !.byDestination = EmptyMap]
  IN FoldSeq(BindingsAdd, W1,
             SelectSeq(W.storeBindings,
                       LAMBDA b : /\ b.source = "" \/ b.source \in saved
                                  /\ b.destination \in names))

Restart ==
  /\ restarts < MaxRestarts
  /\ Commit(RecoverFromStore(
       [Cur EXCEPT !.connections = {},
                   !.connState = [c \in Conns |-> "none"],
                   !.connChannels = [c \in Conns |-> <<>>],
                   !.channels = [ch \in ChanIds |-> NewChannel],
                   !.consumers = EmptyMap,
                   !.queueConsumers = EmptyMap,
                   !.immediates = <<>>,
                   !.tasks = <<>>,
                   !.connInfo = [c \in Conns |-> NewConnection(now)],
                   !.logFileHandle = "open",
                   !.sent = <<[type |-> "broker:started"]>>,
                   !.restarts = @ + 1]))

(***************************************************************************)
(* Specifications.  Each one drives the handlers with the frames of a      *)
(* small set of clients.                                                   *)
(***************************************************************************)
Client == "c1"
ClientChannel == "c1.1"
WorkQueue == "q1"
ConsumerTag == "t1"

\* delivery and acknowledgement: one connection with one channel working on
\* one non-durable queue; the client consumes under a tag that is not in
\* use and settles tags the channel has assigned
Next ==
  \/ Connect(Client)
  \/ ChannelOpen(ClientChannel)
  \/ QueueDeclare(ClientChannel, WorkQueue, FALSE, FALSE, FALSE)
  \/ QueueDelete(ClientChannel, WorkQueue)
  \/ \E n \in 0..MaxPrefetch : BasicQos(ClientChannel, n)
  \/ \E noAck \in BOOLEAN :
       /\ ConsumerTag \notin DOMAIN consumers
       /\ BasicConsume(ClientChannel, WorkQueue, ConsumerTag, noAck, FALSE)
  \/ BasicCancel(ClientChannel, ConsumerTag)
  \/ PublishMessage(ClientChannel, "", WorkQueue, "", 1, FALSE)
  \/ \E noAck \in BOOLEAN : BasicGet(ClientChannel, WorkQueue, noAck)
  \/ \E t \in 1..MaxTag, multiple \in BOOLEAN :
       /\ t <= channels[ClientChannel].deliveryTagCounter
       /\ BasicAck(ClientChannel, t, multiple)
  \/ \E t \in 1..MaxTag, requeue \in BOOLEAN :
       /\ t <= channels[ClientChannel].deliveryTagCounter
       /\ BasicReject(ClientChannel, t, requeue)
  \/ \E t \in 1..MaxTag, multiple \in BOOLEAN, requeue \in BOOLEAN :
       /\ t <= channels[ClientChannel].deliveryTagCounter
       /\ BasicNack(ClientChannel, t, multiple, requeue)
  \/ \E requeue \in BOOLEAN : BasicRecover(ClientChannel, requeue)
  \/ RunImmediate

Spec == Init /\ [][Next]_vars

\* flow control: the same client switching the flow of its channel, with no
\* prefetch limit
NextFlow ==
  \/ Connect(Client)
  \/ ChannelOpen(ClientChannel)
  \/ \E active \in BOOLEAN : ChannelFlow(ClientChannel, active)
  \/ QueueDeclare(ClientChannel, WorkQueue, FALSE, FALSE, FALSE)
  \/ \E noAck \in BOOLEAN :
       BasicConsume(ClientChannel, WorkQueue, ConsumerTag, noAck, FALSE)
  \/ PublishMessage(ClientChannel, "", WorkQueue, "", 1, FALSE)
  \/ \E noAck \in BOOLEAN : BasicGet(ClientChannel, WorkQueue, noAck)
  \/ \E t \in 1..MaxTag, multiple \in BOOLEAN : BasicAck(ClientChannel, t, multiple)
  \/ \E t \in 1..MaxTag, requeue \in BOOLEAN : BasicReject(ClientChannel, t, requeue)
  \/ \E t \in 1..MaxTag, multiple \in BOOLEAN, requeue \in BOOLEAN :
       BasicNack(ClientChannel, t, multiple, requeue)
  \/ RunImmediate

SpecFlow == Init /\ [][NextFlow]_vars

\* no requeue: the same client sending no frame that requeues a message and
\* keeping its channel and connection open
NextFifo ==
  \/ Connect(Client)
  \/ ChannelOpen(ClientChannel)
  \/ \E active \in BOOLEAN : ChannelFlow(ClientChannel, active)
  \/ QueueDeclare(ClientChannel, WorkQueue, FALSE, FALSE, FALSE)
  \/ QueuePurge(ClientChannel, WorkQueue)
  \/ \E n \in 0..MaxPrefetch : BasicQos(ClientChannel, n)
  \/ \E noAck \in BOOLEAN :
       BasicConsume(ClientChannel, WorkQueue, ConsumerTag, noAck, FALSE)
  \/ BasicCancel(ClientChannel, ConsumerTag)
  \/ PublishMessage(ClientChannel, "", WorkQueue, "", 1, FALSE)
  \/ \E noAck \in BOOLEAN : BasicGet(ClientChannel, WorkQueue, noAck)
  \/ \E t \in 1..MaxTag, multiple \in BOOLEAN : BasicAck(ClientChannel, t, multiple)
  \/ RunImmediate

SpecFifo == Init /\ [][NextFifo]_vars

\* end of channels and connections: one connection with two channels, each
\* consuming from the queue under its own consumer tag and fetching with
\* Basic.Get, until the channels or the connection end
CloseChannels == {"c1.1", "c1.2"}
TagOf(ch) == IF ch = "c1.1" THEN "t1" ELSE "t2"

NextClose ==
  \/ Connect(Client)
  \/ \E ch \in CloseChannels : ChannelOpen(ch)
  \/ \E ch \in CloseChannels : ChannelCloseMethod(ch)
  \/ ConnectionCloseMethod(Client)
  \/ SocketClose(Client)
  \/ HeartbeatTimeout(Client)
  \/ QueueDeclare(ClientChannel, WorkQueue, FALSE, FALSE, FALSE)
  \/ QueueDelete(ClientChannel, WorkQueue)
  \/ \E ch \in CloseChannels : BasicConsume(ch, WorkQueue, TagOf(ch), FALSE, FALSE)
  \/ PublishMessage(ClientChannel, "", WorkQueue, "", 1, FALSE)
  \/ \E ch \in CloseChannels : BasicGet(ch, WorkQueue, FALSE)
  \/ RunImmediate

SpecClose == Init /\ [][NextClose]_vars

\* persistence: a client publishing persistent messages to a durable queue,
\* with and without a messageId of its own, over crashes and restarts
NextPersist ==
  \/ Connect(Client)
  \/ ChannelOpen(ClientChannel)
  \/ QueueDeclare(ClientChannel, WorkQueue, TRUE, FALSE, FALSE)
  \/ QueuePurge(ClientChannel, WorkQueue)
  \/ \E messageId \in ClientMessageIds :
       PublishMessage(ClientChannel, "", WorkQueue, messageId, 2, FALSE)
  \/ \E noAck \in BOOLEAN : BasicGet(ClientChannel, WorkQueue, noAck)
  \/ \E t \in 1..MaxTag : BasicAck(ClientChannel, t, FALSE)
  \/ Restart

SpecPersist == Init /\ [][NextPersist]_vars

\* persistence writes in flight: two connections, each declaring a durable
\* queue of its own and asking for it again with a passive declare
AsyncChannels == {"c1.1", "c2.1"}
QueueOf(ch) == IF ch = "c1.1" THEN "q1" ELSE "q2"

NextAsync ==
  \/ \E ch \in AsyncChannels : Connect(ChanConn(ch))
  \/ \E ch \in AsyncChannels : ChannelOpen(ch)
  \/ \E ch \in AsyncChannels, passive \in BOOLEAN :
       QueueDeclareBegin(ch, QueueOf(ch), TRUE, FALSE, passive)
  \/ \E i \in 1..Len(tasks) : Resume(i)

SpecAsync == Init /\ [][NextAsync]_vars

\* exclusive queues: connection c1 declares the exclusive queue q1 and
\* connection c2 the ordinary queue q2; both bind their queue to amq.fanout
\* and fetch from it what c2 publishes, and both connections end
OwnerChannel == "c1.1"
OtherChannel == "c2.1"
ExclusiveQueue == "q1"
SharedQueue == "q2"
OwnChannels == {OwnerChannel, OtherChannel}
OwnQueue(ch) == IF ch = OwnerChannel THEN ExclusiveQueue ELSE SharedQueue

NextExclusive ==
  \/ \E ch \in OwnChannels : Connect(ChanConn(ch))
  \/ \E ch \in OwnChannels : ChannelOpen(ch)
  \/ \E ch \in OwnChannels :
       QueueDeclare(ch, OwnQueue(ch), FALSE, ch = OwnerChannel, FALSE)
  \/ \E ch \in OwnChannels : QueueBind(ch, OwnQueue(ch), "amq.fanout", "")
  \/ PublishMessage(OtherChannel, "amq.fanout", "", "", 1, FALSE)
  \/ \E ch \in OwnChannels : BasicGet(ch, OwnQueue(ch), FALSE)
  \/ \E ch \in OwnChannels : ConnectionCloseMethod(ChanConn(ch))
  \/ \E ch \in OwnChannels : SocketClose(ChanConn(ch))
  \/ \E ch \in OwnChannels : HeartbeatTimeout(ChanConn(ch))

SpecExclusive == Init /\ [][NextExclusive]_vars

\* access to an exclusive queue: c1 declares the exclusive queue q1, binds
\* it and publishes to it, and c2 sends every queue method, Basic.Consume
\* and Basic.Get for q1
NextLocked ==
  \/ \E ch \in OwnChannels : Connect(ChanConn(ch))
  \/ \E ch \in OwnChannels : ChannelOpen(ch)
  \/ QueueDeclare(OwnerChannel, ExclusiveQueue, FALSE, TRUE, FALSE)
  \/ QueueBind(OwnerChannel, ExclusiveQueue, "amq.fanout", "")
  \/ PublishMessage(OwnerChannel, "amq.fanout", "", "", 1, FALSE)
  \/ \E passive \in BOOLEAN :
       QueueDeclare(OtherChannel, ExclusiveQueue, FALSE, TRUE, passive)
  \/ QueueBind(OtherChannel, ExclusiveQueue, "amq.direct", "k")
  \/ QueuePurge(OtherChannel, ExclusiveQueue)
  \/ QueueDelete(OtherChannel, ExclusiveQueue)
  \/ BasicConsume(OtherChannel, ExclusiveQueue, ConsumerTag, TRUE, FALSE)
  \/ BasicGet(OtherChannel, ExclusiveQueue, TRUE)

SpecLocked == Init /\ [][NextLocked]_vars

\* routing: one client declaring two queues, binding them to the direct,
\* fanout and headers exchanges and publishing to the default exchange, to
\* these exchanges and to an exchange that does not exist
BoundExchanges == {"amq.direct", "amq.fanout", "amq.headers"}
PublishExchanges == BoundExchanges \cup {"", "nx"}
PublishKeys == {"k", "q1"}

\* the Queue.Bind frames of the client: queue, exchange, routing key
ClientBinds ==
  {<<"q1", "amq.direct", "k">>, <<"q1", "amq.direct", "j">>,
   <<"q1", "amq.fanout", "k">>, <<"q1", "amq.fanout", "j">>,
   <<"q1", "amq.headers", "k">>,
   <<"q2", "amq.fanout", "k">>}

\* the Basic.Publish frames of the client: exchange, routing key, mandatory
ClientPublishes ==
  {<<"", "q1", TRUE>>, <<"nx", "k", FALSE>>}
  \cup {<<e, "k", TRUE>> : e \in PublishExchanges \ {""}}

\* bound: the bindings to exchanges other than the default exchange
ExplicitBindings == SelectSeq(bindings, LAMBDA b : b.source # "")

NextRouting ==
  \/ Connect(Client)
  \/ ChannelOpen(ClientChannel)
  \/ \E q \in QueueNames : QueueDeclare(ClientChannel, q, FALSE, FALSE, FALSE)
  \/ \E b \in ClientBinds :
       /\ Len(ExplicitBindings) < MaxBindings
       /\ QueueBind(ClientChannel, b[1], b[2], b[3])
  \/ \E p \in ClientPublishes :
       /\ published < MaxRouted
       /\ PublishMessage(ClientChannel, p[1], p[2], "", 1, p[3])

SpecRouting == Init /\ [][NextRouting]_vars

(***************************************************************************)
(* matchesPattern on its own: the routing key and the pattern are drawn    *)
(* from bounded sets of strings and the function is applied to them.       *)
(***************************************************************************)
\* the words of routing keys, and the tokens of patterns
KeyAlphabet == {"a", "b"}
PatternAlphabet == KeyAlphabet \cup {"*", "#"}

\* the strings of one to MaxWords words of alphabet joined with '.'
DottedStrings(alphabet) ==
  {Join(words) : words \in UNION {[1..n -> alphabet] : n \in 1..MaxWords}}

\* the routing keys and the patterns under test; "" is the empty routing key
\* and the empty pattern
RoutingKeys == DottedStrings(KeyAlphabet) \cup {""}
Patterns == DottedStrings(PatternAlphabet) \cup {""}

InitTopic ==
  /\ InitBroker
  /\ call \in [fn : {"matchesPattern"}, routingKey : RoutingKeys, pattern : Patterns]
  /\ returned = <<>>

\* matchesPattern(call.routingKey, call.pattern) runs and returns
MatchesPatternCall ==
  /\ call.fn = "matchesPattern"
  /\ returned = <<>>
  /\ returned' = <<MatchesPattern(call.routingKey, call.pattern)>>
  /\ UNCHANGED <<connections, connState, connChannels, channels, queues, bindings,
                 bySource, byDestination, consumers, queueConsumers, immediates, storeLog, storeIndex,
                 storeQueues, storeBindings, sent, published, restarts, tasks,
                 tmpFiles, exchanges, storeExchanges, logFileHandle, connInfo, now,
                 call>>

NextTopic == MatchesPatternCall

SpecTopic == InitTopic /\ [][NextTopic]_vars

\* the handshake: one client sending the protocol header and the connection
\* methods in any order, with any values in Tune-Ok
TuneValues(serverValue) == {0, 1, serverValue, serverValue + 1}

NextHandshake ==
  \/ SocketAccept(Client)
  \/ \E valid \in BOOLEAN : ProtocolHeader(Client, valid)
  \/ \E authValid \in BOOLEAN : StartOk(Client, authValid)
  \/ \E channelMax \in TuneValues(OptionsOf("channelMax")),
        frameMax \in TuneValues(OptionsOf("frameMax")),
        heartbeat \in TuneValues(OptionsOf("heartbeat")) :
       TuneOk(Client, channelMax, frameMax, heartbeat)
  \/ ConnectionOpen(Client)
  \/ ConnectionCloseMethod(Client)
  \/ ConnectionCloseOk(Client)
  \/ SocketClose(Client)

SpecHandshake == Init /\ [][NextHandshake]_vars

\* heartbeat: a client that negotiates a heartbeat of one or two seconds and
\* then sends Channel.Flow and heartbeat frames; the clock advances only when
\* the step before it handled a frame of the client (every such step writes
\* a reply), so the broker receives a frame in every second
HeartbeatValues == {1, 2}

TickAfterFrame == sent # <<>> /\ Tick

NextHeartbeat ==
  \/ SocketAccept(Client)
  \/ ProtocolHeader(Client, TRUE)
  \/ StartOk(Client, TRUE)
  \/ \E heartbeat \in HeartbeatValues : TuneOk(Client, 0, 0, heartbeat)
  \/ ConnectionOpen(Client)
  \/ ChannelOpen(ClientChannel)
  \/ \E active \in BOOLEAN : ChannelFlow(ClientChannel, active)
  \/ HeartbeatFrame(Client)
  \/ HeartbeatTimer(Client)
  \/ TickAfterFrame

SpecHeartbeat == Init /\ [][NextHeartbeat]_vars

\* dispatch among consumers: two channels of one connection, each with a
\* no-ack consumer on the queue, and a publisher that goes on publishing
\* while it may
PublishToWorkQueue == PublishMessage(ClientChannel, "", WorkQueue, "", 1, FALSE)

NextFair ==
  \/ Connect(Client)
  \/ \E ch \in CloseChannels : ChannelOpen(ch)
  \/ QueueDeclare(ClientChannel, WorkQueue, FALSE, FALSE, FALSE)
  \/ \E ch \in CloseChannels : BasicConsume(ch, WorkQueue, TagOf(ch), TRUE, FALSE)
  \/ PublishToWorkQueue
  \/ RunImmediate

\* the publisher's step as the publish counter shows it: PublishMessage is
\* enabled exactly when its guard holds, and it alone advances the counter
PublishProgress ==
  /\ ChannelReady(ClientChannel) /\ DeliveryRoom /\ published < MaxMsgs
  /\ published' = published + 1

\* the publisher is never held back for ever: a client that keeps publishing
SpecFair == Init /\ [][NextFair]_vars /\ WF_published(PublishProgress)

\* consumer registration: two channels of one connection consuming from and
\* cancelling on one queue, with either tag and with or without exclusive
NextConsumers ==
  \/ Connect(Client)
  \/ \E ch \in CloseChannels : ChannelOpen(ch)
  \/ QueueDeclare(ClientChannel, WorkQueue, FALSE, FALSE, FALSE)
  \/ \E ch \in CloseChannels, tag \in Tags, exclusive \in BOOLEAN :
       BasicConsume(ch, WorkQueue, tag, TRUE, exclusive)
  \/ \E ch \in CloseChannels, tag \in Tags : BasicCancel(ch, tag)

SpecConsumers == Init /\ [][NextConsumers]_vars

\* entities and their removal: one connection with two channels declaring,
\* binding, unbinding and deleting one exchange and one queue, with and
\* without auto-delete, and consuming from the queue
WorkExchange == "x1"
WorkKey == "k"

NextEntities ==
  \/ Connect(Client)
  \/ \E ch \in CloseChannels : ChannelOpen(ch)
  \/ \E ch \in CloseChannels : ChannelCloseMethod(ch)
  \/ SocketClose(Client)
  \/ \E autoDelete \in BOOLEAN :
       ExchangeDeclare(ClientChannel, WorkExchange, "direct", FALSE, autoDelete, FALSE)
  \/ \E autoDelete \in BOOLEAN :
       QueueDeclareWith(ClientChannel, WorkQueue, FALSE, FALSE, autoDelete, FALSE)
  \/ QueueBind(ClientChannel, WorkQueue, WorkExchange, WorkKey)
  \/ QueueUnbind(ClientChannel, WorkQueue, WorkExchange, WorkKey)
  \/ \E ifUnused, ifEmpty \in BOOLEAN :
       QueueDeleteIf(ClientChannel, WorkQueue, ifUnused, ifEmpty)
  \/ \E ifUnused \in BOOLEAN : ExchangeDelete(ClientChannel, WorkExchange, ifUnused)
  \/ \E ch \in CloseChannels : BasicConsume(ch, WorkQueue, TagOf(ch), TRUE, FALSE)
  \/ \E ch \in CloseChannels : BasicCancel(ch, TagOf(ch))
  \/ PublishMessage(ClientChannel, "", WorkQueue, "", 1, FALSE)
  \/ RunImmediate

SpecEntities == Init /\ [][NextEntities]_vars

\* recovery: one client declaring, binding, unbinding and deleting an
\* exchange and a queue, durable or not, publishing persistent messages, and
\* the broker being stopped and started again on the same dataDir
NextRecovery ==
  \/ Connect(Client)
  \/ ChannelOpen(ClientChannel)
  \/ \E durable \in BOOLEAN :
       ExchangeDeclare(ClientChannel, WorkExchange, "direct", durable, FALSE, FALSE)
  \/ ExchangeDelete(ClientChannel, WorkExchange, FALSE)
  \/ \E durable \in BOOLEAN, exclusive \in BOOLEAN :
       QueueDeclare(ClientChannel, WorkQueue, durable, exclusive, FALSE)
  \/ QueueDelete(ClientChannel, WorkQueue)
  \/ QueueBind(ClientChannel, WorkQueue, WorkExchange, WorkKey)
  \/ QueueUnbind(ClientChannel, WorkQueue, WorkExchange, WorkKey)
  \/ QueueBind(ClientChannel, WorkQueue, "", WorkQueue)
  \/ QueueUnbind(ClientChannel, WorkQueue, "", WorkQueue)
  \/ PublishMessage(ClientChannel, "", WorkQueue, "", 2, FALSE)
  \/ Restart

SpecRecovery == Init /\ [][NextRecovery]_vars

\* shutdown: two connections declaring durable queues, whose handlers are
\* suspended in the store, while the broker is stopped and started again;
\* frames arrive only at connections of a running broker
NextStop ==
  \/ \E ch \in AsyncChannels : logFileHandle = "open" /\ Connect(ChanConn(ch))
  \/ \E ch \in AsyncChannels : ChannelOpen(ch)
  \/ \E ch \in AsyncChannels : QueueDeclareBegin(ch, QueueOf(ch), TRUE, FALSE, FALSE)
  \/ \E i \in 1..Len(tasks) : Resume(i)
  \/ Stop
  \/ Restart

SpecStop == Init /\ [][NextStop]_vars

\* content frames: a client sending Basic.Publish, content headers, body
\* frames and Basic.Get on one channel in any order
NextContent ==
  \/ Connect(Client)
  \/ ChannelOpen(ClientChannel)
  \/ QueueDeclare(ClientChannel, WorkQueue, FALSE, FALSE, FALSE)
  \/ BasicPublish(ClientChannel, "", WorkQueue, FALSE)
  \/ \E bodySize \in 0..MaxBodySize : HeaderFrame(ClientChannel, bodySize, "", 1)
  \/ \E length \in 1..MaxBodySize : BodyFrame(ClientChannel, length)
  \/ BasicGet(ClientChannel, WorkQueue, TRUE)

SpecContent == Init /\ [][NextContent]_vars

\* acknowledgement: one connection with two channels; the first consumes
\* from the queue under a prefetch limit, the second fetches with Basic.Get,
\* and both acknowledge delivery tags they have been given, once or again
FetchChannel == "c1.2"

NextAcks ==
  \/ Connect(Client)
  \/ \E ch \in CloseChannels : ChannelOpen(ch)
  \/ QueueDeclare(ClientChannel, WorkQueue, FALSE, FALSE, FALSE)
  \/ \E n \in 1..MaxPrefetch : BasicQos(ClientChannel, n)
  \/ \E noAck \in BOOLEAN :
       BasicConsume(ClientChannel, WorkQueue, ConsumerTag, noAck, FALSE)
  \/ PublishMessage(ClientChannel, "", WorkQueue, "", 1, FALSE)
  \/ BasicGet(FetchChannel, WorkQueue, FALSE)
  \/ \E ch \in CloseChannels, t \in 1..MaxTag, multiple \in BOOLEAN :
       /\ t <= channels[ch].deliveryTagCounter
       /\ BasicAck(ch, t, multiple)
  \/ RunImmediate

SpecAcks == Init /\ [][NextAcks]_vars

\* the log of a durable queue: a client publishing persistent and transient
\* messages, each with an id of the broker's, to a durable queue, consuming
\* and fetching them, settling them and purging the queue
NextPurge ==
  \/ Connect(Client)
  \/ ChannelOpen(ClientChannel)
  \/ QueueDeclare(ClientChannel, WorkQueue, TRUE, FALSE, FALSE)
  \/ QueuePurge(ClientChannel, WorkQueue)
  \/ \E deliveryMode \in {1, 2} :
       PublishMessage(ClientChannel, "", WorkQueue, "", deliveryMode, FALSE)
  \/ /\ ConsumerTag \notin DOMAIN consumers
     /\ BasicConsume(ClientChannel, WorkQueue, ConsumerTag, FALSE, FALSE)
  \/ \E noAck \in BOOLEAN : BasicGet(ClientChannel, WorkQueue, noAck)
  \/ \E t \in 1..MaxTag, multiple \in BOOLEAN :
       /\ t <= channels[ClientChannel].deliveryTagCounter
       /\ BasicAck(ClientChannel, t, multiple)
  \/ \E t \in 1..MaxTag, requeue \in BOOLEAN :
       /\ t <= channels[ClientChannel].deliveryTagCounter
       /\ BasicReject(ClientChannel, t, requeue)
  \/ \E t \in 1..MaxTag, requeue \in BOOLEAN :
       /\ t <= channels[ClientChannel].deliveryTagCounter
       /\ BasicNack(ClientChannel, t, FALSE, requeue)
  \/ \E requeue \in BOOLEAN : BasicRecover(ClientChannel, requeue)
  \/ RunImmediate

SpecPurge == Init /\ [][NextPurge]_vars

\* the binding registry: a client declaring, binding, unbinding and deleting
\* one exchange and one queue, with routing keys and queue names that hold
\* the ':' of the binding key, until its connection ends or the broker
\* restarts
BindingRoutingKeys == {"k", "k:k"}
UnbindQueues == {"q1", "q1:k"}

NextBindings ==
  \/ Connect(Client)
  \/ ChannelOpen(ClientChannel)
  \/ ExchangeDeclare(ClientChannel, WorkExchange, "direct", TRUE, FALSE, FALSE)
  \/ ExchangeDelete(ClientChannel, WorkExchange, FALSE)
  \/ \E durable \in BOOLEAN, exclusive \in BOOLEAN :
       QueueDeclare(ClientChannel, WorkQueue, durable, exclusive, FALSE)
  \/ QueueDelete(ClientChannel, WorkQueue)
  \/ \E routingKey \in BindingRoutingKeys :
       QueueBind(ClientChannel, WorkQueue, WorkExchange, routingKey)
  \/ \E queueName \in UnbindQueues, routingKey \in BindingRoutingKeys :
       QueueUnbind(ClientChannel, queueName, WorkExchange, routingKey)
  \/ SocketClose(Client)
  \/ Restart

SpecBindings == Init /\ [][NextBindings]_vars

\* places of a message: one connection with two channels, the first
\* consuming from the queue and the second fetching with Basic.Get, each
\* settling its deliveries with ack, nack, reject and Basic.Recover, until
\* the channels or the connection end
NextPlaces ==
  \/ Connect(Client)
  \/ \E ch \in CloseChannels : ChannelOpen(ch)
  \/ \E ch \in CloseChannels : ChannelCloseMethod(ch)
  \/ ConnectionCloseMethod(Client)
  \/ QueueDeclare(ClientChannel, WorkQueue, FALSE, FALSE, FALSE)
  \/ /\ ConsumerTag \notin DOMAIN consumers
     /\ BasicConsume(ClientChannel, WorkQueue, ConsumerTag, FALSE, FALSE)
  \/ PublishMessage(ClientChannel, "", WorkQueue, "", 1, FALSE)
  \/ BasicGet(FetchChannel, WorkQueue, FALSE)
  \/ \E ch \in CloseChannels, t \in 1..MaxTag :
       /\ t <= channels[ch].deliveryTagCounter
       /\ BasicAck(ch, t, FALSE)
  \/ \E ch \in CloseChannels, t \in 1..MaxTag :
       /\ t <= channels[ch].deliveryTagCounter
       /\ BasicReject(ch, t, TRUE)
  \/ \E ch \in CloseChannels, t \in 1..MaxTag :
       /\ t <= channels[ch].deliveryTagCounter
       /\ BasicNack(ch, t, TRUE, TRUE)
  \/ \E ch \in CloseChannels, requeue \in BOOLEAN : BasicRecover(ch, requeue)
  \/ RunImmediate

SpecPlaces == Init /\ [][NextPlaces]_vars

(***************************************************************************)
(* Properties.                                                             *)
(***************************************************************************)
\* the frames of one type that a step wrote on channel ch
FramesOf(frames, type, ch) ==
  SelectSeq(frames, LAMBDA f : f.type = type /\ f.channel = ch)

\* the deliveries a step wrote on channel ch: Basic.Deliver and Basic.Get-Ok
DeliveriesOn(frames, ch) ==
  SelectSeq(frames, LAMBDA f : f.type \in {"basic.deliver", "basic.get-ok"}
                               /\ f.channel = ch)

\* the delivery tags of the entries of an unacked map
UnackedTags(chan) ==
  {chan.unackedMessages[i].deliveryTag : i \in 1..Len(chan.unackedMessages)}

C2_DeliveryTags ==
  [][\A ch \in ChanIds :
       LET before == channels[ch].deliveryTagCounter
           after == channels'[ch].deliveryTagCounter
           frames == DeliveriesOn(sent', ch)
       IN /\ channels[ch].state = "none" => after = 0
          /\ after >= before
          /\ \A i \in 1..Len(frames) : frames[i].deliveryTag = before + i
          /\ connState'[ChanConn(ch)] # "closed" => after = before + Len(frames)
          /\ UnackedTags(channels'[ch]) \subseteq 1..after
          /\ Cardinality(UnackedTags(channels'[ch])) =
               Len(channels'[ch].unackedMessages)]_vars

\* the second delivery of a channel carries tag 2 after the first was settled
C2_Witness ==
  \E ch \in ChanIds :
    /\ \E i \in 1..Len(sent) :
         /\ sent[i].type \in {"basic.deliver", "basic.get-ok"}
         /\ sent[i].channel = ch
         /\ sent[i].deliveryTag = 2
    /\ UnackedTags(channels[ch]) = {2}

\* the entries of a message log that are delete records for the message
\* record at position i and were written after it
DeletesAfter(log, i) ==
  {j \in (i + 1)..Len(log) :
     /\ log[j].type = "delete"
     /\ log[j].queue = log[i].queue
     /\ log[j].messageId = log[i].messageId}

\* the number of copies of the message with identity uid in a queue
Copies(queue, uid) ==
  Cardinality({k \in 1..Len(queue.messages) : queue.messages[k].uid = uid})

\* C3: right after a restart, every persistent message that was saved for a
\* durable queue and for whose id no delete record was written afterwards is
\* in that queue exactly once, also when several messages were published with
\* the same client-supplied messageId.
C3_DurableMessageOnceAfterRestart ==
  sent = <<[type |-> "broker:started"]>> =>
    \A i \in 1..Len(storeLog) :
      (/\ storeLog[i].type = "message"
       /\ storeLog[i].queue \in DOMAIN storeQueues
       /\ DeletesAfter(storeLog, i) = {})
      => /\ storeLog[i].queue \in DOMAIN queues
         /\ Copies(queues[storeLog[i].queue], storeLog[i].data.json.content) = 1

\* the channel objects of a connection
ChannelsOf(conn) == {ch \in ChanIds : ChanConn(ch) = conn}

\* C4: when a connection ends, every unacked entry of every channel of the
\* connection is back in its source queue (if the queue exists afterwards),
\* and once the broker has dropped the connection no consumer of its channels
\* is left in the consumer registry.
C4_ConnectionEndCleansUp ==
  [][\A conn \in Conns :
       /\ (connState[conn] = "open" /\ connState'[conn] = "closed") =>
            \A ch \in Range(connChannels[conn]) :
              \A e \in Range(channels[ch].unackedMessages) :
                e.queueName \in DOMAIN queues' =>
                  e.message \in Range(queues'[e.queueName].messages)
       /\ (conn \in connections /\ conn \notin connections') =>
            \A t \in DOMAIN consumers' : consumers'[t].channel \notin ChannelsOf(conn)]_vars

\* C5: the step that handles Channel.Close on a channel of the connection
\* puts every message of the channel's unacked map back in its source queue
\* (when that queue exists), leaves no consumer of the channel in the
\* consumer registry, removes the channel from its connection and sends
\* Close-Ok.
C5_ChannelClose ==
  [][\A ch \in ChanIds :
       (HasChannel(Cur, ch) /\ ChannelCloseMethod(ch)) =>
         /\ \A e \in Range(channels[ch].unackedMessages) :
              e.queueName \in DOMAIN queues =>
                /\ e.queueName \in DOMAIN queues'
                /\ e.message \in Range(queues'[e.queueName].messages)
         /\ \A t \in DOMAIN consumers' : consumers'[t].channel # ch
         /\ ch \notin Range(connChannels'[ChanConn(ch)])
         /\ channels'[ch].unackedMessages = <<>>
         /\ \E i \in 1..Len(sent') :
              sent'[i] = [type |-> "channel.close-ok", channel |-> ch]]_vars

\* Channel.Close has been handled on a channel that had a consumer and held
\* unacked deliveries: every published message is in the queue again
C5_Witness ==
  \E ch \in ChanIds, q \in DOMAIN queues :
    /\ channels[ch].state = "closed"
    /\ sent = <<[type |-> "channel.close-ok", channel |-> ch]>>
    /\ channels[ch].deliveryTagCounter >= 2
    /\ queues[q].consumerCount = 0
    /\ Len(queues[q].messages) = published

\* the position of x in the sequence s
PosIn(s, x) == CHOOSE i \in 1..Len(s) : s[i] = x

\* C6: when a step removes a channel from its connection and puts several of
\* its unacked entries back into one queue, these messages stand in the queue
\* in the order of their delivery tags, lowest first, and ahead of every
\* message that was waiting in the queue.
C6_CloseRequeueKeepsOrder ==
  [][\A ch \in ChanIds, q \in QueueNames :
       LET back == SelectSeq(channels[ch].unackedMessages,
                             LAMBDA e : e.queueName = q)
       IN (/\ HasChannel(Cur, ch)
           /\ ch \notin Range(connChannels'[ChanConn(ch)])
           /\ Len(back) >= 2
           /\ q \in DOMAIN queues
           /\ q \in DOMAIN queues'
           /\ \A i \in 1..Len(back) : back[i].message \in Range(queues'[q].messages))
          => /\ \A i, j \in 1..Len(back) :
                  i < j => PosIn(queues'[q].messages, back[i].message)
                             < PosIn(queues'[q].messages, back[j].message)
             /\ \A i \in 1..Len(back) :
                  \A m \in Range(queues[q].messages) :
                    /\ m \in Range(queues'[q].messages)
                    /\ PosIn(queues'[q].messages, back[i].message)
                         < PosIn(queues'[q].messages, m)]_vars

\* C7: the step that handles Basic.Reject(requeue=true) or
\* Basic.Nack(multiple=false, requeue=true) of an unacked delivery whose
\* queue exists removes the entry from the unacked map and puts the message,
\* unchanged, at the head of that queue, ahead of everything waiting there.
C7_RequeueAtHead ==
  [][\A ch \in ChanIds :
       \A e \in Range(channels[ch].unackedMessages) :
         (/\ e.queueName \in DOMAIN queues
          /\ \/ BasicReject(ch, e.deliveryTag, TRUE)
             \/ BasicNack(ch, e.deliveryTag, FALSE, TRUE))
         => /\ e.queueName \in DOMAIN queues'
            /\ queues'[e.queueName].messages =
                 <<e.message>> \o queues[e.queueName].messages
            /\ e.deliveryTag \notin UnackedTags(channels'[ch])]_vars

\* a delivered message is back at the head of its queue, ahead of a message
\* published after it, by a step that wrote no frame
C7_Witness ==
  \E ch \in ChanIds, q \in DOMAIN queues :
    /\ channels[ch].state = "open"
    /\ channels[ch].deliveryTagCounter >= 1
    /\ channels[ch].unackedMessages = <<>>
    /\ sent = <<>>
    /\ published >= 2
    /\ Len(queues[q].messages) = published
    /\ queues[q].messages[1].uid < queues[q].messages[2].uid

\* the deliveries a step wrote of messages of queue q (a message published
\* to the default exchange is routed to the queue its routing key names)
DeliveriesFrom(frames, q) ==
  SelectSeq(frames, LAMBDA f : f.type \in {"basic.deliver", "basic.get-ok"}
                               /\ f.message.routingKey = q)

\* C8: when no requeue occurs, messages leave a queue in the order they were
\* enqueued (uid numbers the messages in that order): the waiting messages
\* stand in enqueue order, the deliveries of a step are in enqueue order, and
\* every delivered message was enqueued before all the messages still waiting.
C8_Fifo ==
  [][\A q \in QueueNames :
       LET out == DeliveriesFrom(sent', q)
       IN /\ \A i, j \in 1..Len(out) :
               i < j => out[i].message.uid < out[j].message.uid
          /\ q \in DOMAIN queues' =>
               LET waiting == queues'[q].messages
               IN /\ \A i, j \in 1..Len(waiting) :
                       i < j => waiting[i].uid < waiting[j].uid
                  /\ \A i \in 1..Len(out), k \in 1..Len(waiting) :
                       out[i].message.uid < waiting[k].uid]_vars

\* the second message of a queue is delivered while the first is unacked
C8_Witness ==
  \E ch \in ChanIds :
    /\ \E i \in 1..Len(sent) :
         /\ sent[i].type \in {"basic.deliver", "basic.get-ok"}
         /\ sent[i].message.uid = 2
    /\ \E e \in Range(channels[ch].unackedMessages) : e.message.uid = 1

\* C9: a Basic.Deliver is written only for a consumer that is in the consumer
\* registry and whose channel is open.
C9_DeliverOnlyToLiveConsumer ==
  \A i \in 1..Len(sent) :
    sent[i].type = "basic.deliver" =>
      /\ channels[sent[i].channel].state = "open"
      /\ sent[i].consumerTag \in DOMAIN consumers
      /\ consumers[sent[i].consumerTag].channel = sent[i].channel

\* C10: a step that starts with flowActive = false on a channel writes no
\* Basic.Deliver on it and assigns a delivery tag only for a Basic.Get, while
\* Basic.Ack still removes the entry and Basic.Nack and Basic.Reject with
\* requeue still put the message at the head of its queue.
C10_NoDeliveryWhileFlowStopped ==
  [][\A ch \in ChanIds :
       ~channels[ch].flowActive =>
         /\ FramesOf(sent', "basic.deliver", ch) = <<>>
         /\ FramesOf(sent', "basic.get-ok", ch) = <<>> =>
              channels'[ch].deliveryTagCounter = channels[ch].deliveryTagCounter
         /\ \A e \in Range(channels[ch].unackedMessages) :
              /\ BasicAck(ch, e.deliveryTag, FALSE) =>
                   e.deliveryTag \notin UnackedTags(channels'[ch])
              /\ (/\ e.queueName \in DOMAIN queues
                  /\ \/ BasicReject(ch, e.deliveryTag, TRUE)
                     \/ BasicNack(ch, e.deliveryTag, FALSE, TRUE)) =>
                   /\ e.deliveryTag \notin UnackedTags(channels'[ch])
                   /\ Head(queues'[e.queueName].messages) = e.message]_vars

\* with the flow stopped and no prefetch limit, a delivery was acknowledged
\* and a message waits in the queue of a registered consumer of the channel
C10_Witness ==
  \E ch \in ChanIds, t \in DOMAIN consumers :
    /\ ~channels[ch].flowActive
    /\ channels[ch].state = "open"
    /\ channels[ch].prefetchCount = 0
    /\ consumers[t].channel = ch
    /\ consumers[t].queueName \in DOMAIN queues
    /\ queues[consumers[t].queueName].messages # <<>>
    /\ channels[ch].deliveryTagCounter >= 1
    /\ channels[ch].unackedMessages = <<>>
    /\ sent = <<>>

\* the suspended handlers of the frames of connection conn, oldest first
TasksOf(ts, conn) == SelectSeq(ts, LAMBDA t : t.conn = conn)

\* the frames of a step that were written to the socket of connection conn
FramesTo(frames, conn) ==
  SelectSeq(frames, LAMBDA f : \/ "channel" \in DOMAIN f /\ ChanConn(f.channel) = conn
                               \/ "conn" \in DOMAIN f /\ f.conn = conn)

\* C11: while the handler of a frame of a connection is suspended at a
\* persistence write, a step in which none of the connection's suspended
\* handlers goes on begins no other handler of the connection: it writes no
\* frame to the connection and suspends no further handler of it.
C11_FramesHandledInOrder ==
  [][\A conn \in Conns :
       LET before == TasksOf(tasks, conn)
           after == TasksOf(tasks', conn)
       IN (/\ before # <<>>
           /\ Len(after) >= Len(before)
           /\ SubSeq(after, 1, Len(before)) = before)
          => /\ after = before
             /\ FramesTo(sent', conn) = <<>>]_vars

\* C12: once no handler is suspended and no handler has failed, the queue
\* snapshot holds an entry for every durable queue of the queue table and
\* the binding snapshot holds its default binding.
C12_SnapshotKeepsEveryQueue ==
  (/\ tasks = <<>>
   /\ \A conn \in Conns : connState[conn] # "closing")
  => \A q \in DOMAIN queues :
       queues[q].durable =>
         /\ q \in DOMAIN storeQueues
         /\ DefaultBinding(q) \in Range(storeBindings)

\* the queues declared exclusive by connection conn
ExclusiveQueuesOf(qs, conn) ==
  {q \in DOMAIN qs : qs[q].exclusive /\ qs[q].exclusiveConnectionId = conn}

\* C13: the step in which the broker drops connection C removes every queue
\* declared exclusive by C from the queue table and leaves no binding whose
\* destination is such a queue; every other queue stays in the table with
\* its attributes, every message it held and its bindings.
C13_ExclusiveQueuesGoWithConnection ==
  [][\A conn \in Conns :
       (conn \in connections /\ conn \notin connections') =>
         LET owned == ExclusiveQueuesOf(queues, conn)
         IN /\ \A q \in owned :
                 /\ q \notin DOMAIN queues'
                 /\ GetByDestination(bindings', q) = <<>>
            /\ \A q \in (DOMAIN queues) \ owned :
                 /\ q \in DOMAIN queues'
                 /\ queues'[q].durable = queues[q].durable
                 /\ queues'[q].exclusive = queues[q].exclusive
                 /\ queues'[q].exclusiveConnectionId = queues[q].exclusiveConnectionId
                 /\ Range(queues[q].messages) \subseteq Range(queues'[q].messages)
                 /\ GetByDestination(bindings', q) = GetByDestination(bindings, q)]_vars

\* the connection that fetched from its exclusive queue is gone, and so are
\* the queue and its bindings, while the other connection's queue, its
\* message and its bindings are in place
C13_Witness ==
  /\ ChanConn(OwnerChannel) \notin connections
  /\ connState[ChanConn(OwnerChannel)] = "closed"
  /\ channels[OwnerChannel].deliveryTagCounter >= 1
  /\ ExclusiveQueue \notin DOMAIN queues
  /\ GetByDestination(bindings, ExclusiveQueue) = <<>>
  /\ SharedQueue \in DOMAIN queues
  /\ queues[SharedQueue].messages # <<>>
  /\ Len(GetByDestination(bindings, SharedQueue)) = 2
  /\ ChanConn(OtherChannel) \in connections

\* C14: while the connection that owns an exclusive queue is open, the step
\* that handles a Queue.Declare, Basic.Consume, Basic.Get, Queue.Bind,
\* Queue.Purge or Queue.Delete for that queue on a channel of another
\* connection writes Channel.Close with reply code 405 and leaves the queue
\* table and the bindings as they were.
C14_ExclusiveQueueRefusesOthers ==
  [][\A q \in DOMAIN queues, ch \in ChanIds :
       (/\ queues[q].exclusive
        /\ queues[q].exclusiveConnectionId # ChanConn(ch)
        /\ queues[q].exclusiveConnectionId \in connections
        /\ connState[queues[q].exclusiveConnectionId] = "open"
        /\ \/ \E passive \in BOOLEAN : QueueDeclare(ch, q, FALSE, TRUE, passive)
           \/ BasicConsume(ch, q, ConsumerTag, TRUE, FALSE)
           \/ BasicGet(ch, q, TRUE)
           \/ QueueBind(ch, q, "amq.direct", "k")
           \/ QueuePurge(ch, q)
           \/ QueueDelete(ch, q))
       => /\ sent' = <<[type |-> "channel.close", channel |-> ch, replyCode |-> 405]>>
          /\ queues' = queues
          /\ bindings' = bindings]_vars

\* the queues a publish to exchange e with routing key k has to reach, read
\* off the exchange table, the queue table and the binding registry
ExpectedQueues(e, k) ==
  IF e = "" THEN {q \in DOMAIN queues : q = k}
  ELSE IF e \notin DOMAIN exchanges THEN {}
  ELSE LET bound == {b \in Range(bindings) : b.source = e}
       IN CASE exchanges[e].type = "direct" ->
                 {b.destination : b \in {x \in bound : x.routingKey = k}} \cap DOMAIN queues
            [] exchanges[e].type = "fanout" ->
                 {b.destination : b \in bound} \cap DOMAIN queues
            [] OTHER -> {}

\* C15: the step that completes a publish with mandatory set whose exchange
\* and routing key reach no queue writes to the publisher's channel
\* Basic.Return with reply code 313, the exchange and the routing key of the
\* publish, then the content header with the properties of the publish, then
\* the body, and changes no queue.
C15_UnroutableMandatoryIsReturned ==
  [][\A ch \in ChanIds, e \in PublishExchanges, k \in PublishKeys :
       (/\ published' = published + 1
        /\ ExpectedQueues(e, k) = {}
        /\ PublishMessage(ch, e, k, "", 1, TRUE))
       => /\ sent' = <<[type |-> "basic.return", channel |-> ch, replyCode |-> 313,
                        exchange |-> e, routingKey |-> k],
                       [type |-> "content-header", channel |-> ch,
                        properties |-> [messageId |-> "", deliveryMode |-> 1]],
                       [type |-> "content-body", channel |-> ch,
                        content |-> published + 1]>>
          /\ queues' = queues]_vars

\* a publish to the direct exchange has been returned: the exchange has a
\* binding, but none under the routing key of the publish
C15_Witness ==
  /\ Len(sent) = 3
  /\ sent[1].type = "basic.return"
  /\ sent[1].exchange = "amq.direct"
  /\ sent[3].content = published
  /\ GetBySource(bindings, "amq.direct") # <<>>
  /\ \A q \in DOMAIN queues : queues[q].messages = <<>>

\* C16: the step that completes a publish to exchange E with routing key K
\* appends the message once to every queue of the expected set (the queue
\* named K for the default exchange, the destinations of E's bindings with
\* routing key K for a direct exchange, the destinations of all of E's
\* bindings for a fanout exchange, none for a headers exchange or an
\* exchange that does not exist) and leaves every other queue as it was.
C16_RoutedToExpectedQueues ==
  [][\A ch \in ChanIds, e \in PublishExchanges, k \in PublishKeys :
       (/\ published' = published + 1
        /\ \E mandatory \in BOOLEAN : PublishMessage(ch, e, k, "", 1, mandatory))
       => /\ DOMAIN queues' = DOMAIN queues
          /\ \A q \in DOMAIN queues :
               queues'[q].messages =
                 IF q \in ExpectedQueues(e, k)
                 THEN Append(queues[q].messages,
                             CreateMessage(e, k, "", 1, published + 1))
                 ELSE queues[q].messages]_vars

\* a message published to the fanout exchange is once in a queue that is
\* bound to the exchange twice
C16_Witness ==
  \E q \in DOMAIN queues :
    /\ Len(GetByDestination(GetBySource(bindings, "amq.fanout"), q)) = 2
    /\ Len(queues[q].messages) = 1
    /\ queues[q].messages[1].exchange = "amq.fanout"

RECURSIVE WordsMatch(_, _)
\* the words match the tokens: a literal token stands for that same word, *
\* for exactly one word, # for zero or more words
WordsMatch(words, tokens) ==
  IF tokens = <<>> THEN words = <<>>
  ELSE IF Head(tokens) = "#"
  THEN \E n \in 0..Len(words) :
         WordsMatch(SubSeq(words, n + 1, Len(words)), Tail(tokens))
  ELSE /\ words # <<>>
       /\ Head(tokens) = "*" \/ Head(tokens) = Head(words)
       /\ WordsMatch(Tail(words), Tail(tokens))

\* the string has at least one word and none of its words is empty
NonEmptyWords(str) == \A i \in 1..Len(Split(str)) : Split(str)[i] # ""

\* C17: for every routing key and every pattern made of non-empty words,
\* matchesPattern returns a boolean, and it returns TRUE exactly when the
\* dot-separated words of the key match the tokens of the pattern (a literal
\* token the same word, * exactly one word, # zero or more words).
C17_MatchesPatternIsWordMatch ==
  (/\ call.fn = "matchesPattern"
   /\ NonEmptyWords(call.routingKey)
   /\ NonEmptyWords(call.pattern))
  => /\ MatchesPattern(call.routingKey, call.pattern) \in BOOLEAN
     /\ returned # <<>> =>
          returned[1] = WordsMatch(Split(call.routingKey), Split(call.pattern))

\* a key is matched by a pattern with # in the middle after the first
\* position tried for the token behind # has failed
C17_Witness ==
  /\ call.fn = "matchesPattern"
  /\ call.routingKey = "a.b.b"
  /\ call.pattern = "a.#.b"
  /\ returned = <<TRUE>>

\* C18: when matchesPattern returns TRUE for the empty routing key, the
\* pattern is empty or all of its tokens are #.
C18_EmptyKeyMatchesOnlyHashes ==
  (/\ call.fn = "matchesPattern"
   /\ call.routingKey = ""
   /\ returned = <<TRUE>>)
  => \/ call.pattern = ""
     \/ \A i \in 1..Len(Split(call.pattern)) : Split(call.pattern)[i] = "#"

\* the entries of channel ch that Basic.Ack(t, multiple) has to leave
KeptEntries(ch, t, multiple) ==
  SelectSeq(channels[ch].unackedMessages,
            LAMBDA e : IF multiple THEN ~(e.deliveryTag <= t) ELSE e.deliveryTag # t)

DeliveredFrom(frames, q) ==
  SelectSeq(frames, LAMBDA f : /\ f.type = "basic.deliver"
                               /\ consumers[f.consumerTag].queueName = q)

\* the unacked entries that the Basic.Deliver frames of a step on channel ch
\* to consumers without no-ack stand for
TrackedDeliveries(frames, ch) ==
  LET tracked == SelectSeq(frames, LAMBDA f : /\ f.type = "basic.deliver"
                                              /\ f.channel = ch
                                              /\ ~consumers[f.consumerTag].noAck)
  IN [i \in 1..Len(tracked) |->
        [deliveryTag |-> tracked[i].deliveryTag, message |-> tracked[i].message,
         queueName |-> consumers[tracked[i].consumerTag].queueName,
         consumerTag |-> tracked[i].consumerTag]]

UnackedFrom(ch, q) ==
  {e.message : e \in {x \in Range(channels[ch].unackedMessages) : x.queueName = q}}

\* C20: the step that handles Basic.Recover(requeue) on a channel without
\* consumers empties the channel's unacked map and returns the message of
\* every entry to its source queue: with requeue=true the returned messages
\* are in front of the messages the queue held, with requeue=false behind
\* them.
C20_RecoverRequeuesAtHeadOrTail ==
  [][\A ch \in ChanIds, requeue \in BOOLEAN :
       (/\ channels[ch].consumers = <<>>
        /\ BasicRecover(ch, requeue))
       => /\ channels'[ch].unackedMessages = <<>>
          /\ \A q \in DOMAIN queues :
               LET n == Cardinality(UnackedFrom(ch, q))
                   old == queues[q].messages
                   new == queues'[q].messages
               IN /\ Len(new) = Len(old) + n
                  /\ IF requeue
                     THEN /\ SubSeq(new, n + 1, Len(new)) = old
                          /\ Range(SubSeq(new, 1, n)) = UnackedFrom(ch, q)
                     ELSE /\ SubSeq(new, 1, Len(old)) = old
                          /\ Range(SubSeq(new, Len(old) + 1, Len(new))) =
                               UnackedFrom(ch, q)]_vars

\* the step answers with Channel.Close 505 on channel ch and routes nothing
RefusedAsUnexpected(ch) ==
  /\ sent' = <<[type |-> "channel.close", channel |-> ch, replyCode |-> 505]>>
  /\ queues' = queues
  /\ published' = published

\* C21: on an open channel, a content header that arrives with no pending
\* publish or after a header, a body frame that arrives with no pending
\* publish, before the header or with more bytes than body-size leaves to
\* receive, and a method frame that arrives while content is pending are each
\* answered with Channel.Close 505, and the step routes no message.
C21_ContentOutOfOrderIsRefused ==
  [][\A ch \in ChanIds :
       LET pending == channels[ch].pendingMessage
       IN ChannelReady(ch) =>
            /\ \A bodySize \in 0..MaxBodySize :
                 (/\ pending = <<>> \/ pending[1].bodySize > 0
                  /\ HeaderFrame(ch, bodySize, "", 1))
                 => RefusedAsUnexpected(ch)
            /\ \A length \in 1..MaxBodySize :
                 (/\ \/ pending = <<>>
                     \/ pending[1].bodySize = 0
                     \/ pending[1].receivedSize + length > pending[1].bodySize
                  /\ BodyFrame(ch, length))
                 => RefusedAsUnexpected(ch)
            /\ (/\ pending # <<>>
                /\ \/ BasicPublish(ch, "", WorkQueue, FALSE)
                   \/ BasicGet(ch, WorkQueue, TRUE))
               => RefusedAsUnexpected(ch)]_vars

\* the position of a connection state in the chain
StateRank(state) ==
  CASE state = "none" -> 0
    [] state = "awaiting_header" -> 1
    [] state = "awaiting_start_ok" -> 2
    [] state = "awaiting_tune_ok" -> 3
    [] state = "awaiting_open" -> 4
    [] state = "open" -> 5
    [] state = "closing" -> 6
    [] state = "closed" -> 7

\* C22: every change of a connection's state goes one step along the chain
\* awaiting_header, awaiting_start_ok, awaiting_tune_ok, awaiting_open, open,
\* closing, closed, or forward to closing or closed; so open is entered only
\* from awaiting_open, and never from closing or closed.
C22_ConnectionStateChain ==
  [][\A conn \in Conns :
       connState'[conn] # connState[conn]
       => \/ StateRank(connState'[conn]) = StateRank(connState[conn]) + 1
          \/ /\ connState'[conn] \in {"closing", "closed"}
             /\ StateRank(connState'[conn]) > StateRank(connState[conn])]_vars

\* the value negotiated from the client's value and the server's value
Negotiated(clientValue, serverValue) ==
  IF clientValue = 0 THEN serverValue
  ELSE IF clientValue < serverValue THEN clientValue ELSE serverValue

\* C23: after the step that handles Tune-Ok, channelMax, frameMax and
\* heartbeat of the connection are each the smaller of the client's and the
\* server's value when the client's value is not zero, and the server's
\* value when it is zero.
C23_TuneOkNegotiation ==
  [][\A conn \in Conns :
       \A channelMax \in TuneValues(OptionsOf("channelMax")),
          frameMax \in TuneValues(OptionsOf("frameMax")),
          heartbeat \in TuneValues(OptionsOf("heartbeat")) :
         TuneOk(conn, channelMax, frameMax, heartbeat)
         => /\ connInfo'[conn].channelMax =
                 Negotiated(channelMax, OptionsOf("channelMax"))
            /\ connInfo'[conn].frameMax = Negotiated(frameMax, OptionsOf("frameMax"))
            /\ connInfo'[conn].heartbeat =
                 Negotiated(heartbeat, OptionsOf("heartbeat"))]_vars

\* C24: while the broker receives a frame of the connection in every
\* second, which is within every window of twice the heartbeat, no run of the
\* heartbeat interval callback closes the connection.
C24_TimerSparesLiveConnection ==
  [][\A conn \in Conns :
       HeartbeatTimer(conn) => connState'[conn] # "closed"]_vars

\* the consumer of channel ch on the work queue is registered and can receive
EligibleOn(ch) ==
  /\ TagOf(ch) \in DOMAIN consumers
  /\ consumers[TagOf(ch)].channel = ch
  /\ consumers[TagOf(ch)].queueName = WorkQueue
  /\ channels[ch].state = "open"
  /\ CanReceive(channels[ch])

\* C25: from a state in which the consumers of both channels are eligible
\* and nothing has been published yet, the publisher going on publishing to
\* the queue leads to a state in which each of the two channels has been
\* sent a delivery, unless one of the consumers stopped being eligible.
C25_NoEligibleConsumerStarves ==
  ((\A ch \in CloseChannels : EligibleOn(ch)) /\ published = 0)
  ~> \/ \A ch \in CloseChannels : channels[ch].deliveryTagCounter > 0
     \/ \E ch \in CloseChannels : ~EligibleOn(ch)

\* C26: a Basic.Consume that asks for exclusive on a queue that has a
\* consumer, or that addresses a queue with an exclusive consumer, is
\* answered with Channel.Close 403 and leaves the registry and the queue's
\* consumer count unchanged; so in the state after any step a queue with an
\* exclusive consumer has exactly one consumer.
C26_ExclusiveConsumerIsAlone ==
  [][/\ \A ch \in CloseChannels, tag \in Tags, exclusive \in BOOLEAN :
          ( /\ WorkQueue \in DOMAIN queues
            /\ \/ exclusive /\ GetByQueue(Cur, WorkQueue) # <<>>
               \/ HasExclusiveConsumer(Cur, WorkQueue)
            /\ BasicConsume(ch, WorkQueue, tag, TRUE, exclusive) )
          => /\ consumers' = consumers
             /\ queueConsumers' = queueConsumers
             /\ queues'[WorkQueue].consumerCount = queues[WorkQueue].consumerCount
             /\ \E i \in 1..Len(sent') :
                  /\ sent'[i].type = "channel.close"
                  /\ sent'[i].replyCode = 403
     /\ \A tag \in DOMAIN consumers' :
          consumers'[tag].exclusive
          => \A other \in DOMAIN consumers' :
               consumers'[other].queueName = consumers'[tag].queueName => other = tag
    ]_vars

\* C27: a Basic.Consume with a tag that the registry already holds leaves
\* the registry's consumer of that tag as it was, and in the state after any
\* step no consumer tag is held by two channels.
C27_ConsumerTagsAreUnique ==
  [][/\ \A ch \in CloseChannels, tag \in Tags, exclusive \in BOOLEAN :
          (tag \in DOMAIN consumers /\ BasicConsume(ch, WorkQueue, tag, TRUE, exclusive))
          => /\ tag \in DOMAIN consumers'
             /\ consumers'[tag] = consumers[tag]
     /\ \A ch1, ch2 \in CloseChannels :
          ch1 # ch2 => Range(channels'[ch1].consumers) \cap Range(channels'[ch2].consumers) = {}
    ]_vars

\* C28: when a step takes the last consumer from an autoDelete queue that
\* had consumers, the queue is no longer in the queue table after the step
\* and no binding leads to it.
C28_AutoDeleteQueueIsRemoved ==
  [][\A q \in DOMAIN queues :
       ( /\ queues[q].autoDelete
         /\ GetByQueue(Cur, q) # <<>>
         /\ GetByQueue(Cur', q) = <<>> )
       => /\ q \notin DOMAIN queues'
          /\ GetByDestination(bindings', q) = <<>>
    ]_vars

\* C29: when a step removes the last binding of an autoDelete exchange, the
\* exchange is no longer in the exchange table after the step.
C29_AutoDeleteExchangeIsRemoved ==
  [][\A x \in DOMAIN exchanges :
       ( /\ exchanges[x].autoDelete
         /\ GetBySource(bindings, x) # <<>>
         /\ GetBySource(bindings', x) = <<>> )
       => x \notin DOMAIN exchanges'
    ]_vars

\* a Channel.Close with reply code 406 is among the frames of the step
PreconditionFailed(ch) ==
  \E i \in 1..Len(sent') :
    /\ sent'[i].type = "channel.close"
    /\ sent'[i].channel = ch
    /\ sent'[i].replyCode = 406

\* C30: Queue.Delete with ifUnused on a queue with consumers, Queue.Delete
\* with ifEmpty on a queue with messages and Exchange.Delete with ifUnused on
\* an exchange with bindings send Channel.Close 406 and leave the queue
\* table, the exchange table and the bindings unchanged.
C30_ConditionalDeleteIsRefused ==
  [][/\ \A ifUnused, ifEmpty \in BOOLEAN :
          ( /\ WorkQueue \in DOMAIN queues
            /\ \/ ifUnused /\ queues[WorkQueue].consumerCount > 0
               \/ ifEmpty /\ queues[WorkQueue].messages # <<>>
            /\ QueueDeleteIf(ClientChannel, WorkQueue, ifUnused, ifEmpty) )
          => /\ PreconditionFailed(ClientChannel)
             /\ UNCHANGED <<queues, exchanges, bindings>>
     /\ ( /\ WorkExchange \in DOMAIN exchanges
          /\ GetBySource(bindings, WorkExchange) # <<>>
          /\ ExchangeDelete(ClientChannel, WorkExchange, TRUE) )
        => /\ PreconditionFailed(ClientChannel)
           /\ UNCHANGED <<queues, exchanges, bindings>>
    ]_vars

\* the channel-level reply codes: AccessRefused, NotFound, ResourceLocked,
\* PreconditionFailed
ChannelErrorCodes == {403, 404, 405, 406}

\* C31: a step that sends Channel.Close with a channel-level error code on a
\* channel leaves that channel in a state other than open, and leaves the
\* other channels that were open in state open.
C31_ChannelErrorClosesChannel ==
  [][\A ch \in CloseChannels :
       (\E i \in 1..Len(sent') :
          /\ sent'[i].type = "channel.close"
          /\ sent'[i].channel = ch
          /\ sent'[i].replyCode \in ChannelErrorCodes)
       => /\ channels'[ch].state # "open"
          /\ \A other \in CloseChannels \ {ch} :
               channels[other].state = "open" => channels'[other].state = "open"
    ]_vars

\* C32: a step that stops and starts the broker leaves in the tables the
\* default exchanges and the durable exchanges of the state before, the
\* durable non-exclusive queues of the state before, and those bindings of
\* the state before that lead into a recovered queue from the default
\* exchange or a recovered exchange; nothing else.
C32_RecoveredTables ==
  [][restarts' = restarts + 1 =>
       /\ DOMAIN exchanges' =
            (DOMAIN CreateDefaultExchanges)
              \cup {x \in DOMAIN exchanges : exchanges[x].durable}
       /\ DOMAIN queues' =
            {q \in DOMAIN queues : queues[q].durable /\ ~queues[q].exclusive}
       /\ Range(bindings') =
            {b \in Range(bindings) :
               /\ b.destination \in DOMAIN queues'
               /\ b.source = "" \/ b.source \in DOMAIN exchanges'}
    ]_vars

\* C33: once stop() has closed the log handle and returned, and until the
\* broker is started again, no step writes to the files of the store: the
\* message log, queues.json, bindings.json, exchanges.json and their
\* temporary files are as stop() left them.
C33_NoWriteAfterStop ==
  [][(logFileHandle = "null" /\ logFileHandle' = "null")
     => UNCHANGED <<storeLog, storeQueues, storeBindings, storeExchanges, tmpFiles>>
    ]_vars

\* C34: every queue of the queue table has its default binding: source
\* "" (the default exchange), destination the queue, routing key the queue's
\* name.
C34_DefaultBindingExists ==
  \A q \in DOMAIN queues : DefaultBinding(q) \in Range(bindings)

\* the number of places that hold the message of a publish: its positions
\* in the queues' FIFOs and in the channels' unacked maps
PlacesOf(uid) ==
  Cardinality({qi \in {<<q, i>> : q \in DOMAIN queues, i \in 1..MaxMsgs + 1} :
                 /\ qi[2] <= Len(queues[qi[1]].messages)
                 /\ queues[qi[1]].messages[qi[2]].uid = uid})
  + Cardinality({ci \in ChanIds \X (1..MaxMsgs + 1) :
                 /\ ci[2] <= Len(channels[ci[1]].unackedMessages)
                 /\ channels[ci[1]].unackedMessages[ci[2]].message.uid = uid})

\* C35: every published message is in at most one place: once in the
\* queue's FIFO or in one channel's unacked map, never in both and never
\* twice.
C35_MessageInOnePlace ==
  \A uid \in 1..published : PlacesOf(uid) <= 1

\* the second message is unacked on a channel while the first, delivered
\* before it, is back in the queue
C35_Witness ==
  /\ WorkQueue \in DOMAIN queues
  /\ \E m \in Range(queues[WorkQueue].messages) : m.uid = 1
  /\ \E ch \in CloseChannels :
       \E e \in Range(channels[ch].unackedMessages) : e.message.uid = 2

\* no handler is suspended and no setImmediate callback is scheduled
Quiescent == immediates = <<>> /\ tasks = <<>>

\* the consumer of the tag can be sent a delivery: its channel is open, its
\* flow is active and its prefetch count is not exhausted
EligibleConsumer(tag) ==
  /\ channels[consumers[tag].channel].state = "open"
  /\ CanReceive(channels[consumers[tag].channel])

\* C36: in a quiescent state no queue holds messages while one of its
\* registered consumers is eligible for dispatch.
C36_QuiescentQueuesAreDispatched ==
  Quiescent =>
    \A tag \in DOMAIN consumers :
      (/\ consumers[tag].queueName \in DOMAIN queues
       /\ EligibleConsumer(tag))
      => queues[consumers[tag].queueName].messages = <<>>

\* the uids of the messages a queue holds
UidsOf(queue) == {queue.messages[i].uid : i \in 1..Len(queue.messages)}

\* C37: a deleted durable queue leaves no message behind: the messages a
\* queue holds after a restart are messages that the queue of that name
\* held before the restart, never messages of a queue of the same name
\* that was deleted earlier.
C37_DeletedQueueLeavesNoMessages ==
  [][restarts' = restarts + 1
     => \A q \in DOMAIN queues' :
          /\ q \in DOMAIN queues
          /\ UidsOf(queues'[q]) \subseteq UidsOf(queues[q])
    ]_vars

\* the uids of the messages the persistence layer recovers for a queue:
\* the replay of messages.log
RecoverableUids(queueName) ==
  LET msgs == IndexOf(LoadMessages(EmptyMap, storeLog), queueName)
  IN {msgs[i].uid : i \in 1..Len(msgs)}

\* the uids of the persistent messages that are in the queue or unacked
\* from it
LivePersistentUids(queueName) ==
  {m.uid : m \in {n \in Range(queues[queueName].messages) :
                 n.properties.deliveryMode = 2}}
  \cup UNION {{e.message.uid : e \in {f \in Range(channels[ch].unackedMessages) :
                                         /\ f.queueName = queueName
                                         /\ f.message.properties.deliveryMode = 2}} :
              ch \in ChanIds}

\* C38: for every durable queue the messages the persistence layer would
\* recover are the deliveryMode=2 messages that are in the queue or unacked
\* from it.
C38_RecoverableIsLive ==
  \A q \in DOMAIN queues :
    queues[q].durable => RecoverableUids(q) = LivePersistentUids(q)

\* the step answered Basic.Cancel of the tag on the channel
CancelOkSent(ch, tag) ==
  \E i \in 1..Len(sent') :
    /\ sent'[i].type = "basic.cancel-ok"
    /\ sent'[i].channel = ch
    /\ sent'[i].consumerTag = tag

\* C39: a Basic.Cancel received on a channel for the tag of a consumer that
\* was created on another channel leaves that consumer registered and the
\* consumer count of its queue unchanged.
C39_CancelOnlyOwnConsumers ==
  [][\A ch \in CloseChannels, tag \in Tags :
       (/\ CancelOkSent(ch, tag)
        /\ tag \in DOMAIN consumers
        /\ consumers[tag].channel # ch)
       => /\ tag \in DOMAIN consumers'
          /\ consumers'[tag] = consumers[tag]
          /\ queues' = queues
    ]_vars

\* every binding of the registry leads from the default exchange or an
\* existing exchange to an existing queue
BindingsAreAttached ==
  \A b \in Range(bindings) :
    /\ b.destination \in DOMAIN queues
    /\ b.source = "" \/ b.source \in DOMAIN exchanges

\* the keys of the stored bindings
StoredKeys == {BindingKey(b) : b \in Range(bindings)}

\* both indices hold exactly the keys of the stored bindings, each under the
\* source and under the destination of its binding
IndicesMatchBindings ==
  /\ \A b \in Range(bindings) :
       /\ b.source \in DOMAIN bySource
       /\ BindingKey(b) \in Range(bySource[b.source])
       /\ b.destination \in DOMAIN byDestination
       /\ BindingKey(b) \in Range(byDestination[b.destination])
  /\ \A source \in DOMAIN bySource : Range(bySource[source]) \subseteq StoredKeys
  /\ \A destination \in DOMAIN byDestination :
       Range(byDestination[destination]) \subseteq StoredKeys

\* C40: every binding of the registry has an existing queue as destination
\* and the default exchange or an existing exchange as source, and the
\* by-source and by-destination indices contain exactly the keys of the
\* stored bindings.
C40_BindingRegistryIsConsistent ==
  BindingsAreAttached /\ IndicesMatchBindings

====
